---------------------------- MODULE Spec2Model ----------------------------
(***************************************************************************)
(* Conversation message tree of the chat client.                           *)
(*                                                                         *)
(* Part I   rows and the pure tree functions of client/src/lib/            *)
(*          messageTree.ts and of the server's route helpers               *)
(*          (getThreadChain, buildConversationPath).                       *)
(* Part II  Spec: the message store, the chat endpoint and the handlers of *)
(*          the Chat page (send, edit, regenerate, thread reply, delete,   *)
(*          branch navigation).                                            *)
(* Part III SpecTree: the pure functions applied to bounded message lists. *)
(* Part IV  SpecContent: buildUserContent and the storing and rebuilding   *)
(*          of the attachments of a user message.                          *)
(* Part V   SpecApi: the message store and the chat endpoint under any     *)
(*          caller of the HTTP interface.                                  *)
(* Part VI  SpecHistory: the history of a chat request, with the contents  *)
(*          of its turns, from a bounded store and attachment table.       *)
(* Part VII SpecPair: chat requests racing on one conversation.            *)
(* Part VIII SpecView: the main view of the Chat page with room for a      *)
(*          second request, and its fair behaviours.                       *)
(***************************************************************************)
EXTENDS Integers, Sequences, FiniteSets, TLC

VARIABLES
    \* ---- SpecTree: inputs and result of one pure function application
    tMessages,          \* flat message list handed to the function
    tSel,               \* BranchSelection map handed to the function
    tOp,                \* which function was applied last
    tArg,               \* its id argument (message id, root id, target id)
    tOut,               \* the list it returned
    tReturned,          \* whether its loop left through its exit
    tIndex,             \* sibling index reported with the list (siblingsMap)
    tPrev,              \* getActivePath of the list before the last append
    \* ---- Spec: server
    store,              \* rows of table messages, in insertion order
    nextId,             \* identity sequence of messages.id
    clock,              \* database clock behind created_at defaultNow()
    reqs,               \* POST /api/chat requests in flight, by slot
    \* ---- Spec: client (one open conversation view)
    cMessages,          \* react-query data of [conversation, "messages"]
    branchSelections,   \* useState<BranchSelection>
    isStreaming,        \* useState(false) of the Chat page
    threadRootId,       \* useState<number | null> of the Chat page
    threadStreaming,    \* useState(false) of the ThreadPanel
    \* ---- SpecContent: one user message with attachments
    uText,              \* the user's text (userMessage, later msg.content)
    uFiles,             \* the attachments of the request (files)
    uOp,                \* what was applied last
    uContent,           \* buildUserContent(userMessage, files)
    uStored,            \* rows of table message_files
    uRebuilt            \* content rebuilt for the message as an ancestor

treeVars == <<tMessages, tSel, tOp, tArg, tOut, tReturned, tIndex, tPrev>>
serverVars == <<store, nextId, clock, reqs>>
clientVars == <<cMessages, branchSelections, isStreaming, threadRootId,
                threadStreaming>>
contentVars == <<uText, uFiles, uOp, uContent, uStored, uRebuilt>>
pureVars == <<treeVars, contentVars>>
vars == <<tMessages, tSel, tOp, tArg, tOut, tReturned, tIndex, tPrev,
          store, nextId, clock, reqs,
          cMessages, branchSelections, isStreaming, threadRootId,
          threadStreaming,
          uText, uFiles, uOp, uContent, uStored, uRebuilt>>

(***************************************************************************)
(* Part I: rows and pure functions                                         *)
(***************************************************************************)

\* parentMessageId = null (ids are generated from 1, so 0 is never an id)
NULL == 0

ROOT_PARENT_KEY == -1

Min(a, b) == IF a < b THEN a ELSE b
Max(a, b) == IF a > b THEN a ELSE b

Range(s) == {s[i] : i \in DOMAIN s}
Ids(s) == {s[i].id : i \in DOMAIN s}

normalizeParentId(parentId) ==
    IF parentId = NULL THEN ROOT_PARENT_KEY ELSE parentId

\* Array.prototype.sort((a, b) => a.createdAt - b.createdAt): a stable sort;
\* elements are inserted left to right behind every element not created later.
RECURSIVE InsertByCreatedAt(_, _)
InsertByCreatedAt(sorted, m) ==
    IF sorted = <<>> THEN <<m>>
    ELSE IF Head(sorted).createdAt <= m.createdAt
         THEN <<Head(sorted)>> \o InsertByCreatedAt(Tail(sorted), m)
         ELSE <<m>> \o sorted

RECURSIVE SortByCreatedAt(_)
SortByCreatedAt(s) ==
    IF s = <<>> THEN <<>>
    ELSE InsertByCreatedAt(SortByCreatedAt(SubSeq(s, 1, Len(s) - 1)), s[Len(s)])

\* mutant: the comparator is reversed, the sibling groups are newest first
RECURSIVE ReverseSeq(_)
ReverseSeq(s) == IF s = <<>> THEN <<>> ELSE Append(ReverseSeq(Tail(s)), Head(s))

buildMessageTree_newestFirst(messages, includeThreadMessages) ==
    LET kept(m) == includeThreadMessages \/ ~m.isThreadMessage
        keys == {normalizeParentId(messages[i].parentMessageId) :
                    i \in {j \in DOMAIN messages : kept(messages[j])}}
    IN [k \in keys |->
          ReverseSeq(SortByCreatedAt(SelectSeq(messages,
             LAMBDA m : kept(m) /\ normalizeParentId(m.parentMessageId) = k)))]

\* the tree with the thread messages kept whatever the flag
buildMessageTree_withThreads(messages, includeThreadMessages) ==
    LET keys == {normalizeParentId(messages[i].parentMessageId) :
                    i \in DOMAIN messages}
    IN [k \in keys |->
          SortByCreatedAt(SelectSeq(messages,
             LAMBDA m : normalizeParentId(m.parentMessageId) = k))]

\* Map<number, Message[]>: a function on the keys that were set
buildMessageTree(messages, includeThreadMessages) ==
    LET kept(m) == includeThreadMessages \/ ~m.isThreadMessage
        keys == {normalizeParentId(messages[i].parentMessageId) :
                    i \in {j \in DOMAIN messages : kept(messages[j])}}
    IN [k \in keys |->
          SortByCreatedAt(SelectSeq(messages,
             LAMBDA m : kept(m) /\ normalizeParentId(m.parentMessageId) = k))]

\* tree.get(key): undefined is rendered as the empty list (both end the loops)
TreeGet(tree, key) == IF key \in DOMAIN tree THEN tree[key] ELSE <<>>

\* branchSelections[key] ?? 0
SelectedIndex(sel, key) == IF key \in DOMAIN sel THEN sel[key] ELSE 0

\* mutant: the filter matches the children of the message, not its siblings
getSiblings_children(messages, message) ==
    SortByCreatedAt(SelectSeq(messages,
        LAMBDA m : /\ ~m.isThreadMessage
                   /\ normalizeParentId(m.parentMessageId) = message.id))

\* getSiblings(messages, message) with includeThreadMessages left at its
\* default false, as every caller does
getSiblings(messages, message) ==
    SortByCreatedAt(SelectSeq(messages,
        LAMBDA m : /\ ~m.isThreadMessage
                   /\ normalizeParentId(m.parentMessageId)
                        = normalizeParentId(message.parentMessageId)))

\* siblings.findIndex(s => s.id === message.id), zero-based, -1 when absent
FindIndex(siblings, id) ==
    IF \E i \in DOMAIN siblings : siblings[i].id = id
    THEN (CHOOSE i \in DOMAIN siblings :
             /\ siblings[i].id = id
             /\ \A j \in DOMAIN siblings : siblings[j].id = id => i <= j) - 1
    ELSE -1

\* siblingsMap entry of ChatWindow: {siblings, index: index >= 0 ? index : 0}
SiblingsMapEntry(messages, message) ==
    LET siblings == getSiblings(messages, message)
        index == FindIndex(siblings, message.id)
    IN [siblings |-> siblings, index |-> IF index >= 0 THEN index ELSE 0]

\* The while (true) loop of getActivePath.  fuel counts the iterations left;
\* it starts at the length of the list, which a walk that leaves the loop
\* never exceeds, so returned = FALSE stands for a loop that never exits.
\* mutant: currentParentKey is not advanced
RECURSIVE ActivePathLoop_stuck(_, _, _, _, _)
ActivePathLoop_stuck(tree, sel, key, path, fuel) ==
    LET children == TreeGet(tree, key) IN
    IF children = <<>> THEN [path |-> path, returned |-> TRUE]
    ELSE IF fuel = 0 THEN [path |-> path, returned |-> FALSE]
    ELSE LET selectedIndex == SelectedIndex(sel, key)
             clampedIndex == Min(Max(0, selectedIndex), Len(children) - 1)
             selectedChild == children[clampedIndex + 1]
         IN ActivePathLoop_stuck(tree, sel, key, Append(path, selectedChild), fuel - 1)

\* mutant: the branch selection is ignored, the oldest child is taken
RECURSIVE ActivePathLoop_first(_, _, _, _, _)
ActivePathLoop_first(tree, sel, key, path, fuel) ==
    LET children == TreeGet(tree, key) IN
    IF children = <<>> THEN [path |-> path, returned |-> TRUE]
    ELSE IF fuel = 0 THEN [path |-> path, returned |-> FALSE]
    ELSE LET selectedChild == children[1]
         IN ActivePathLoop_first(tree, sel, selectedChild.id,
                                 Append(path, selectedChild), fuel - 1)

RECURSIVE ActivePathLoop(_, _, _, _, _)
ActivePathLoop(tree, sel, key, path, fuel) ==
    LET children == TreeGet(tree, key) IN
    IF children = <<>> THEN [path |-> path, returned |-> TRUE]
    ELSE IF fuel = 0 THEN [path |-> path, returned |-> FALSE]
    ELSE LET selectedIndex == SelectedIndex(sel, key)
             clampedIndex == Min(Max(0, selectedIndex), Len(children) - 1)
             selectedChild == children[clampedIndex + 1]
         IN ActivePathLoop(tree, sel, selectedChild.id,
                           Append(path, selectedChild), fuel - 1)

getActivePathRun(messages, sel) ==
    ActivePathLoop(buildMessageTree(messages, FALSE), sel, ROOT_PARENT_KEY,
                   <<>>, Len(messages))

getActivePath(messages, sel) == getActivePathRun(messages, sel).path

\* The while (true) loop of getThreadMessages.
\* mutant: the children are not filtered by isThreadMessage
RECURSIVE ThreadLoop_noFilter(_, _, _, _, _)
ThreadLoop_noFilter(tree, sel, currentParentId, path, fuel) ==
    LET children == TreeGet(tree, currentParentId) IN
    IF children = <<>> THEN [path |-> path, returned |-> TRUE]
    ELSE IF fuel = 0 THEN [path |-> path, returned |-> FALSE]
    ELSE LET selectedIndex == SelectedIndex(sel, currentParentId)
             clampedIndex == Min(Max(0, selectedIndex), Len(children) - 1)
             selectedChild == children[clampedIndex + 1]
         IN ThreadLoop_noFilter(tree, sel, selectedChild.id,
                                Append(path, selectedChild), fuel - 1)

\* the walk of getThreadMessages with a negative stored index counted from
\* the end of the group
RECURSIVE ThreadLoop_fromEnd(_, _, _, _, _)
ThreadLoop_fromEnd(tree, sel, currentParentId, path, fuel) ==
    LET children == TreeGet(tree, currentParentId)
        threadChildren == SelectSeq(children, LAMBDA c : c.isThreadMessage)
    IN
    IF children = <<>> THEN [path |-> path, returned |-> TRUE]
    ELSE IF threadChildren = <<>> THEN [path |-> path, returned |-> TRUE]
    ELSE IF fuel = 0 THEN [path |-> path, returned |-> FALSE]
    ELSE LET selectedIndex == SelectedIndex(sel, currentParentId)
             clampedIndex == IF selectedIndex < 0 THEN Len(threadChildren) - 1
                             ELSE Min(selectedIndex, Len(threadChildren) - 1)
             selectedChild == threadChildren[clampedIndex + 1]
         IN ThreadLoop_fromEnd(tree, sel, selectedChild.id,
                               Append(path, selectedChild), fuel - 1)

RECURSIVE ThreadLoop(_, _, _, _, _)
ThreadLoop(tree, sel, currentParentId, path, fuel) ==
    LET children == TreeGet(tree, currentParentId)
        threadChildren == SelectSeq(children, LAMBDA c : c.isThreadMessage)
    IN
    IF children = <<>> THEN [path |-> path, returned |-> TRUE]
    ELSE IF threadChildren = <<>> THEN [path |-> path, returned |-> TRUE]
    ELSE IF fuel = 0 THEN [path |-> path, returned |-> FALSE]
    ELSE LET selectedIndex == SelectedIndex(sel, currentParentId)
             clampedIndex == Min(Max(0, selectedIndex), Len(threadChildren) - 1)
             selectedChild == threadChildren[clampedIndex + 1]
         IN ThreadLoop(tree, sel, selectedChild.id,
                       Append(path, selectedChild), fuel - 1)

getThreadMessagesRun(messages, rootMessageId, sel) ==
    IF rootMessageId \notin Ids(messages)
    THEN [path |-> <<>>, returned |-> TRUE]
    ELSE LET rootMessage ==
                messages[CHOOSE i \in DOMAIN messages :
                            /\ messages[i].id = rootMessageId
                            /\ \A j \in DOMAIN messages :
                                  messages[j].id = rootMessageId => i <= j]
         IN ThreadLoop(buildMessageTree(messages, TRUE), sel, rootMessageId,
                       <<rootMessage>>, Len(messages))

getThreadMessages(messages, rootMessageId, sel) ==
    getThreadMessagesRun(messages, rootMessageId, sel).path

\* messageMap.get(id) of buildConversationPath: the last row set under the id
MessageMapHas(messages, id) == id \in Ids(messages)
MessageMapGet(messages, id) ==
    messages[CHOOSE i \in DOMAIN messages :
                /\ messages[i].id = id
                /\ \A j \in DOMAIN messages : messages[j].id = id => j <= i]

\* The while (currentMsg) loop of buildConversationPath.
\* mutant: path.push in place of path.unshift
RECURSIVE ConversationPathLoop_push(_, _, _, _)
ConversationPathLoop_push(messages, currentId, path, fuel) ==
    IF ~MessageMapHas(messages, currentId) THEN [path |-> path, returned |-> TRUE]
    ELSE IF fuel = 0 THEN [path |-> path, returned |-> FALSE]
    ELSE LET currentMsg == MessageMapGet(messages, currentId)
             unshifted == Append(path, currentMsg)
         IN IF currentMsg.parentMessageId = NULL
            THEN [path |-> unshifted, returned |-> TRUE]
            ELSE ConversationPathLoop_push(messages, currentMsg.parentMessageId,
                                           unshifted, fuel - 1)

\* the walk giving up the whole path at a row it cannot find
RECURSIVE ConversationPathLoop_allOrNothing(_, _, _, _)
ConversationPathLoop_allOrNothing(messages, currentId, path, fuel) ==
    IF ~MessageMapHas(messages, currentId) THEN [path |-> <<>>, returned |-> TRUE]
    ELSE IF fuel = 0 THEN [path |-> path, returned |-> FALSE]
    ELSE LET currentMsg == MessageMapGet(messages, currentId)
             unshifted == <<currentMsg>> \o path
         IN IF currentMsg.parentMessageId = NULL
            THEN [path |-> unshifted, returned |-> TRUE]
            ELSE ConversationPathLoop_allOrNothing(messages,
                     currentMsg.parentMessageId, unshifted, fuel - 1)

RECURSIVE ConversationPathLoop(_, _, _, _)
ConversationPathLoop(messages, currentId, path, fuel) ==
    IF ~MessageMapHas(messages, currentId) THEN [path |-> path, returned |-> TRUE]
    ELSE IF fuel = 0 THEN [path |-> path, returned |-> FALSE]
    ELSE LET currentMsg == MessageMapGet(messages, currentId)
             unshifted == <<currentMsg>> \o path
         IN IF currentMsg.parentMessageId = NULL
            THEN [path |-> unshifted, returned |-> TRUE]
            ELSE ConversationPathLoop(messages, currentMsg.parentMessageId,
                                      unshifted, fuel - 1)

buildConversationPathRun(messages, targetMessageId) ==
    ConversationPathLoop(messages, targetMessageId, <<>>, Len(messages))

buildConversationPath(messages, targetMessageId) ==
    buildConversationPathRun(messages, targetMessageId).path

\* childMap of getThreadChain: every row with a parent, grouped by parent id,
\* thread-flagged or not; the group is sorted when the walk reaches it.
ChildMapGet(messages, parentId) ==
    SortByCreatedAt(SelectSeq(messages,
        LAMBDA m : m.parentMessageId # NULL /\ m.parentMessageId = parentId))

RECURSIVE ThreadChainLoop(_, _, _, _)
ThreadChainLoop(messages, currentId, result, fuel) ==
    LET children == ChildMapGet(messages, currentId) IN
    IF children = <<>> THEN [path |-> result, returned |-> TRUE]
    ELSE IF fuel = 0 THEN [path |-> result, returned |-> FALSE]
    ELSE LET firstChild == children[1]
         IN ThreadChainLoop(messages, firstChild.id, Append(result, firstChild),
                            fuel - 1)

getThreadChain(messages, rootId) ==
    ThreadChainLoop(messages, rootId, <<>>, Len(messages)).path

\* ---- user content with attachments (server/routes.ts) -------------------

\* a string content, as buildUserContent returns for no attachments
PlainContent(text) == [kind |-> "string", text |-> text, blocks |-> <<>>]

IMAGE_MIME_TYPES == {"image/png", "image/jpeg", "image/gif", "image/webp"}
PDF_MIME_TYPE == "application/pdf"

StartsWith(str, prefix) ==
    Len(str) >= Len(prefix) /\ SubSeq(str, 1, Len(prefix)) = prefix

isImageFile(mimeType) == mimeType \in IMAGE_MIME_TYPES

isPdfFile(mimeType) == mimeType = PDF_MIME_TYPE

isTextFile(mimeType) ==
    LET textMimeTypes ==
           {"text/plain", "text/html", "text/css", "text/javascript",
            "text/markdown", "text/csv", "text/xml", "application/json",
            "application/xml", "application/javascript",
            "application/typescript", "application/x-yaml", "application/x-sh"}
    IN mimeType \in textMimeTypes \/ StartsWith(mimeType, "text/")

\* base64 strings a request carries as file.data: empty, the unpadded
\* encoding of "A", and the byte 0xFF (not UTF-8)
DataValues == {"", "QQ", "/w=="}

\* Buffer.from(data, 'base64').toString('utf-8') on those strings, on the
\* canonical encodings of "A" and of U+FFFD, and on a string with no base64
\* character; the replacement character U+FFFD is written "<FFFD>"
DecodeBase64Utf8(data) ==
    CASE data = "" -> ""
      [] data = "QQ==" -> "A"
      [] data = "QQ" -> "A"
      [] data = "/w==" -> "<FFFD>"
      [] data = "77+9" -> "<FFFD>"
      [] data = "!" -> ""

\* Buffer.from(text).toString('base64')
EncodeUtf8Base64(text) ==
    CASE text = "" -> ""
      [] text = "A" -> "QQ=="
      [] text = "<FFFD>" -> "77+9"

\* a column left undefined in the insert is stored as SQL NULL
SqlNull == "<NULL>"

\* JavaScript truthiness of a nullable text column
Truthy(v) == v # SqlNull /\ v # ""

ImageBlock(file) ==
    [type |-> "image", media_type |-> file.mimeType, data |-> file.data]

DocumentBlock(file) ==
    [type |-> "document", media_type |-> "application/pdf", data |-> file.data]

\* the code fence of the template (three backquotes), written ~~~
Fence == "~~~"

FileTextBlock(file) ==
    [type |-> "text",
     text |-> "[File: " \o file.originalName \o "]\n" \o Fence \o "\n"
                 \o DecodeBase64Utf8(file.data) \o "\n" \o Fence]

TextBlock(text) == [type |-> "text", text |-> text]

\* the loop of buildUserContent over the attachments
RECURSIVE FileBlocks(_)
FileBlocks(files) ==
    IF files = <<>> THEN <<>>
    ELSE LET file == Head(files) IN
         (IF isImageFile(file.mimeType) THEN <<ImageBlock(file)>>
          ELSE IF isPdfFile(file.mimeType) THEN <<DocumentBlock(file)>>
          ELSE IF isTextFile(file.mimeType) THEN <<FileTextBlock(file)>>
          ELSE <<>>)
         \o FileBlocks(Tail(files))

\* the same loop with a block for every attachment, of whatever type
RECURSIVE FileBlocks_keepAll(_)
FileBlocks_keepAll(files) ==
    IF files = <<>> THEN <<>>
    ELSE LET file == Head(files) IN
         (IF isImageFile(file.mimeType) THEN <<ImageBlock(file)>>
          ELSE IF isPdfFile(file.mimeType) THEN <<DocumentBlock(file)>>
          ELSE <<FileTextBlock(file)>>)
         \o FileBlocks_keepAll(Tail(files))

buildUserContent_keepAll(text, files) ==
    IF files = <<>> THEN PlainContent(text)
    ELSE [kind |-> "blocks", text |-> "",
          blocks |-> Append(FileBlocks_keepAll(files), TextBlock(text))]

buildUserContent(text, files) ==
    IF files = <<>> THEN PlainContent(text)
    ELSE [kind |-> "blocks", text |-> "",
          blocks |-> Append(FileBlocks(files), TextBlock(text))]

\* storage.createMessageFile for one attachment of the saved user message
MessageFileRow(messageId, file, createdAt) ==
    [messageId |-> messageId,
     filename |-> file.filename,
     originalName |-> file.originalName,
     mimeType |-> file.mimeType,
     size |-> file.size,
     fileData |-> IF isImageFile(file.mimeType) \/ isPdfFile(file.mimeType)
                  THEN file.data ELSE SqlNull,
     textContent |-> IF isTextFile(file.mimeType)
                     THEN DecodeBase64Utf8(file.data) ELSE SqlNull,
     createdAt |-> createdAt]

\* the loop saving the attachments, one insert after the other
RECURSIVE SaveFiles(_, _, _)
SaveFiles(rows, messageId, files) ==
    IF files = <<>> THEN rows
    ELSE SaveFiles(Append(rows, MessageFileRow(messageId, Head(files), Len(rows) + 1)),
                   messageId, Tail(files))

\* storage.getMessageFilesForMessages, then the group of one message
getMessageFilesForMessages(rows, messageIds) ==
    SortByCreatedAt(SelectSeq(rows, LAMBDA f : f.messageId \in messageIds))

FilesOfMessage(allMessageFiles, messageId) ==
    SelectSeq(allMessageFiles, LAMBDA f : f.messageId = messageId)

\* the attachment rebuilt from a stored row, with the text columns only
ReconstructedFile_dataOnly(f) ==
    [filename |-> f.filename,
     originalName |-> f.originalName,
     mimeType |-> f.mimeType,
     size |-> f.size,
     data |-> IF Truthy(f.fileData) THEN f.fileData ELSE ""]

ReconstructedFile(f) ==
    [filename |-> f.filename,
     originalName |-> f.originalName,
     mimeType |-> f.mimeType,
     size |-> f.size,
     data |-> IF Truthy(f.fileData) THEN f.fileData
              ELSE IF Truthy(f.textContent) THEN EncodeUtf8Base64(f.textContent)
              ELSE ""]

\* the content pushed for a message of the path that is not the current one
HistoricalContent(msg, msgFiles) ==
    IF msg.role = "user" /\ msgFiles # <<>>
    THEN buildUserContent(msg.content,
                          [k \in 1..Len(msgFiles) |-> ReconstructedFile(msgFiles[k])])
    ELSE PlainContent(msg.content)

(***************************************************************************)
(* Part II: the message store, POST /api/chat and the Chat page            *)
(***************************************************************************)

MaxId == 4              \* ids the identity sequence hands out
MaxReq == 1             \* chat requests in flight at once
MaxFrags == 1           \* text fragments of one model stream
MaxPosts == 1           \* rows in the store that came in through POST /api/messages
MaxPair == 2            \* chat requests in flight at once where requests race

\* the requests the server and the page keep track of
Slots == DOMAIN reqs

EmptySel == [k \in {} |-> 0]

\* A chat request from the handler call to the end of the handler:
\*   the request body (message, parentMessageId, threadContext, threadRootId),
\*   what the calling handler closed over (messages, target) and whether
\*   the component it belongs to is still mounted,
\*   the locals of the route (savedUserId, claudeMessages, fullContent);
\*   status, written and ended are the response: its HTTP status once the
\*   head is sent, the server-sent events written, and whether res.end() or
\*   res.json() closed it;
\*   historyIds names, turn by turn, the row each turn of claudeMessages was
\*   built from (rootMsg, threadMsgs, conversationPath, savedUserMessage).
FreeReq ==
    [pc |-> "free", kind |-> "none", message |-> "", parentMessageId |-> NULL,
     threadContext |-> FALSE, threadRootId |-> NULL,
     model |-> "", conversationId |-> NULL, files |-> <<>>,
     status |-> 0, written |-> <<>>, ended |-> FALSE, savedFiles |-> <<>>,
     messages |-> <<>>, target |-> NULL, mounted |-> FALSE,
     savedUserId |-> NULL, assistantId |-> NULL,
     claudeMessages |-> <<>>, historyIds |-> <<>>,
     fullContent |-> "", streamError |-> FALSE,
     activePath |-> <<>>]

\* the conversation the Chat page shows, and another one
ViewConversation == 1
OtherConversation == 2

\* the body the Chat page sends: its conversation and a model of the enum
ClientReq ==
    [FreeReq EXCEPT !.model = "claude-sonnet-4-5",
                    !.conversationId = ViewConversation]

machineInitWith(slots) ==
    /\ store = <<>>
    /\ nextId = 1
    /\ clock = 1
    /\ reqs = [s \in 1..slots |-> FreeReq]
    /\ cMessages = <<>>
    /\ branchSelections = EmptySel
    /\ isStreaming = FALSE
    /\ threadRootId = NULL
    /\ threadStreaming = FALSE

machineInit == machineInitWith(MaxReq)

treeIdle ==
    /\ tMessages = <<>>
    /\ tSel = EmptySel
    /\ tOp = "none"
    /\ tArg = NULL
    /\ tOut = <<>>
    /\ tReturned = TRUE
    /\ tIndex = 0
    /\ tPrev = <<>>

contentIdle ==
    /\ uText = ""
    /\ uFiles = <<>>
    /\ uOp = "none"
    /\ uContent = PlainContent("")
    /\ uStored = <<>>
    /\ uRebuilt = PlainContent("")

Init == treeIdle /\ machineInit /\ contentIdle

\* ---- the store ----------------------------------------------------------

\* getMessages: select ... order by created_at
getMessagesOf(rows, conversationId) ==
    SortByCreatedAt(SelectSeq(rows, LAMBDA r : r.conversationId = conversationId))

\* the rows of the conversation the Chat page shows
getMessages(rows) == getMessagesOf(rows, ViewConversation)

\* an insert that writes over the newest row
createMessage_overwrite(rows, row) ==
    IF rows = <<>> THEN <<row>> ELSE [rows EXCEPT ![Len(rows)] = row]

\* db.insert(messages).values(message).returning()
createMessage(rows, row) == Append(rows, row)

\* the validation without the enum of model
ValidChatRequest_anyModel(body) ==
    /\ Len(body.message) >= 1
    /\ body.conversationId # NULL

\* chatRequestSchema.parse(req.body) passes and conversationId is given
MODEL_ENUM == {"claude-opus-4-20250514", "claude-sonnet-4-5", "claude-haiku-4-5"}

ValidChatRequest(body) ==
    /\ Len(body.message) >= 1
    /\ body.model \in MODEL_ENUM
    /\ body.conversationId # NULL

\* the server-sent events of the route
TextEvent(text) == [event |-> "content", data |-> text]
ErrorEvent == [event |-> "error", data |-> "Stream error"]
DoneEvent == [event |-> "done", data |-> "[DONE]"]

\* the text fragments of a model stream, in the order the stream yields them
Fragment(k) == IF k = 0 THEN "a" ELSE IF k = 1 THEN "b" ELSE "c"

\* the fragments of the stream answering a prompt: the answer to "w" is
\* another text than the answer to any other prompt
ReplyFragment(message, k) ==
    IF message = "w"
    THEN (IF k = 0 THEN "x" ELSE IF k = 1 THEN "y" ELSE "z")
    ELSE Fragment(k)

\* the foreign key of parent_message_id: an insert needs its parent row
InsertAllowed(rows, parent) == parent = NULL \/ parent \in Ids(rows)

\* the row db.insert(messages).values(...).returning() yields
NewRow(parent, role, content, thread) ==
    [id |-> nextId, conversationId |-> ViewConversation,
     parentMessageId |-> parent, role |-> role,
     content |-> content, isThreadMessage |-> thread, createdAt |-> clock]

\* the same row in the conversation a request names
NewRowIn(conversationId, parent, role, content, thread) ==
    [NewRow(parent, role, content, thread) EXCEPT !.conversationId = conversationId]

\* rows removed with a row: the row and, by ON DELETE CASCADE on
\* parent_message_id, every row that references a removed row
RECURSIVE CascadeIds(_, _)
CascadeIds(rows, doomed) ==
    LET more == {r.id : r \in {x \in Range(rows) : x.parentMessageId \in doomed}}
    IN IF more \subseteq doomed THEN doomed
       ELSE CascadeIds(rows, doomed \cup more)

\* mutant: no cascade, only the row itself goes
deleteMessage_noCascade(rows, id) ==
    SelectSeq(rows, LAMBDA r : r.id # id)

\* DbStorage.deleteMessage(id)
deleteMessage(rows, id) ==
    SelectSeq(rows, LAMBDA r : r.id \notin CascadeIds(rows, {id}))

\* The sequence is cut off at MaxId: a request is only started, and a row
\* only posted, while ids are left for it and for the rows the requests in
\* flight will still create.
RECURSIVE PendingIds(_)
PendingIds(slots) ==
    IF slots = {} THEN 0
    ELSE LET s == CHOOSE x \in slots : TRUE
             n == IF reqs[s].pc = "sent" THEN 2
                  ELSE IF reqs[s].pc \in {"saved", "streaming"} THEN 1
                  ELSE 0
         IN n + PendingIds(slots \ {s})

IdsLeft(n) == nextId + PendingIds(Slots) + n <= MaxId + 1

FreeSlot(s) ==
    /\ reqs[s].pc = "free"
    /\ \A x \in Slots : reqs[x].pc = "free" => s <= x

\* ---- the Chat page ------------------------------------------------------

\* mutant: the parent is the first message of the active path
effectiveParentId_first(path) ==
    IF path # <<>> THEN path[1].id ELSE NULL

\* lastMessage?.id ?? null of handleSendMessage, the parent of a send that
\* names none
effectiveParentId(path) ==
    IF path # <<>> THEN path[Len(path)].id ELSE NULL

\* the ids of a list of rows, in order
IdsOf(rows) == [k \in 1..Len(rows) |-> rows[k].id]

activePath == getActivePath(cMessages, branchSelections)

\* displayMessages of ChatWindow
displayMessages == IF activePath # <<>> THEN activePath ELSE cMessages

\* messages.find(m => m.id === id)
FindMessage(messages, id) ==
    messages[CHOOSE i \in DOMAIN messages :
                /\ messages[i].id = id
                /\ \A j \in DOMAIN messages : messages[j].id = id => i <= j]

\* handleSendMessage(content, undefined): the ChatInput of the main view,
\* disabled while isStreaming; the parent is the last message of the path
StartSend ==
    /\ ~isStreaming
    /\ IdsLeft(2)
    /\ \E s \in Slots :
          /\ FreeSlot(s)
          /\ reqs' = [reqs EXCEPT ![s] =
                           [ClientReq EXCEPT !.pc = "sent", !.kind = "send",
                                           !.message = "q",
                                           !.parentMessageId =
                                               effectiveParentId(activePath),
                                           !.activePath = IdsOf(activePath)]]
    /\ isStreaming' = TRUE
    /\ UNCHANGED <<store, nextId, clock, cMessages, branchSelections,
                   threadRootId, threadStreaming>>

\* handleEditMessage(messageId, newContent) up to the fetch of
\* handleSendMessage(newContent, parentId); the edit button of a user message
StartEdit ==
    /\ IdsLeft(2)
    /\ \E s \in Slots, k \in DOMAIN displayMessages :
          LET editedMessage == displayMessages[k] IN
          /\ FreeSlot(s)
          /\ editedMessage.role = "user"
          /\ reqs' = [reqs EXCEPT ![s] =
                        [ClientReq EXCEPT !.pc = "sent", !.kind = "edit",
                                        !.message = "e",
                                        !.parentMessageId = editedMessage.parentMessageId,
                                        !.messages = cMessages,
                                        !.target = editedMessage.id]]
    /\ isStreaming' = TRUE
    /\ UNCHANGED <<store, nextId, clock, cMessages, branchSelections,
                   threadRootId, threadStreaming>>

\* the two early returns of handleRegenerateMessage
RegenerateGuard(messages, targetMessage) ==
    /\ targetMessage.role = "assistant"
    /\ targetMessage.parentMessageId \in Ids(messages)
    /\ FindMessage(messages, targetMessage.parentMessageId).role = "user"

\* mutant: the new row is attached under the parent user message itself
RegenerateBody_underUser(parentUserMessage) ==
    [message |-> parentUserMessage.content,
     parentMessageId |-> parentUserMessage.id]

\* handleSendMessage(parentUserMessage.content, grandParentId)
RegenerateBody(parentUserMessage) ==
    [message |-> parentUserMessage.content,
     parentMessageId |-> parentUserMessage.parentMessageId]

\* handleRegenerateMessage(messageId) up to the fetch; the regenerate button
\* of a message that is not a user message
StartRegenerate ==
    /\ IdsLeft(2)
    /\ \E s \in Slots, k \in DOMAIN displayMessages :
          LET targetMessage == displayMessages[k] IN
          /\ FreeSlot(s)
          /\ targetMessage.role # "user"
          /\ IF RegenerateGuard(cMessages, targetMessage)
             THEN LET parentUserMessage ==
                         FindMessage(cMessages, targetMessage.parentMessageId)
                      body == RegenerateBody(parentUserMessage)
                  IN /\ reqs' = [reqs EXCEPT ![s] =
                                   [ClientReq EXCEPT !.pc = "sent",
                                                   !.kind = "regenerate",
                                                   !.message = body.message,
                                                   !.parentMessageId = body.parentMessageId,
                                                   !.messages = cMessages,
                                                   !.target = parentUserMessage.id]]
                     /\ isStreaming' = TRUE
             ELSE UNCHANGED <<reqs, isStreaming>>
    /\ UNCHANGED <<store, nextId, clock, cMessages, branchSelections,
                   threadRootId, threadStreaming>>

\* threadRootMessage and threadMessages of the Chat page
threadPanelOpen == threadRootId # NULL /\ threadRootId \in Ids(cMessages)
threadMessages ==
    Tail(getThreadMessages(cMessages, threadRootId, branchSelections))

\* The page stops rendering the ThreadPanel when the root id is cleared or
\* the root message is no longer in the fetched list: the panel's state is
\* lost, and the handlers still running belong to the unmounted instance.
Unmounts(newMessages, newRootId) ==
    /\ threadPanelOpen
    /\ ~(newRootId # NULL /\ newRootId \in Ids(newMessages))

Detach(rs) == [s \in Slots |-> [rs[s] EXCEPT !.mounted = FALSE]]

\* ThreadPanel.handleSendMessage up to the fetch; its ChatInput is disabled
\* while the panel is streaming
StartThreadSend ==
    /\ threadPanelOpen
    /\ ~threadStreaming
    /\ IdsLeft(2)
    /\ \E s \in Slots :
          /\ FreeSlot(s)
          /\ LET lastThreadMessageId ==
                    IF threadMessages # <<>>
                    THEN threadMessages[Len(threadMessages)].id ELSE threadRootId
             IN reqs' = [reqs EXCEPT ![s] =
                           [ClientReq EXCEPT !.pc = "sent", !.kind = "thread",
                                           !.message = "r",
                                           !.parentMessageId = lastThreadMessageId,
                                           !.threadContext = TRUE,
                                           !.mounted = TRUE,
                                           !.threadRootId = threadRootId]]
    /\ threadStreaming' = TRUE
    /\ UNCHANGED <<store, nextId, clock, cMessages, branchSelections,
                   isStreaming, threadRootId>>

\* ---- POST /api/chat -----------------------------------------------------

\* storage.createMessage of the user row.  A parent that is gone violates the
\* foreign key: the insert throws and the catch answers 500.
ServerSaveUser ==
    \E s \in Slots :
       LET r == reqs[s] IN
       /\ r.pc = "sent"
       /\ IF ~ValidChatRequest(r)
          THEN /\ reqs' = [reqs EXCEPT ![s].pc = "invalid",
                                       ![s].status = 400,
                                       ![s].ended = TRUE]
               /\ UNCHANGED <<store, nextId, clock>>
          ELSE IF InsertAllowed(store, r.parentMessageId)
          THEN /\ store' = createMessage(store,
                               NewRowIn(r.conversationId, r.parentMessageId,
                                        "user", r.message, r.threadContext))
               /\ clock' = clock + 1
               /\ nextId' = nextId + 1
               /\ reqs' = [reqs EXCEPT ![s].pc = "saved",
                                       ![s].savedUserId = nextId,
                                       ![s].savedFiles =
                                           SaveFiles(<<>>, nextId, r.files)]
          ELSE /\ reqs' = [reqs EXCEPT ![s].pc = "rejected",
                                       ![s].status = 500,
                                       ![s].ended = TRUE]
               /\ nextId' = nextId + 1
               /\ UNCHANGED <<store, clock>>
       /\ UNCHANGED clientVars

\* the fetch of the request is rejected or answered with an error status
\* before the handler touched the store (the server or the network is down)
SendFails ==
    \E s \in Slots :
       /\ reqs[s].pc = "sent"
       /\ reqs' = [reqs EXCEPT ![s].pc = "rejected",
                               ![s].status = 500,
                               ![s].ended = TRUE]
       /\ UNCHANGED <<store, nextId, clock>>
       /\ UNCHANGED clientVars

\* thread mode: the rows the history is built from, rootMsg and threadMsgs
ThreadHistoryRows(allDbMessages, rootId) ==
    IF rootId \in Ids(allDbMessages)
    THEN <<FindMessage(allDbMessages, rootId)>>
            \o getThreadChain(allDbMessages, rootId)
    ELSE <<>>

\* thread mode: the root message, then getThreadChain
ThreadHistory(allDbMessages, rootId) ==
    IF rootId \in Ids(allDbMessages)
    THEN LET rootMsg == FindMessage(allDbMessages, rootId)
             threadMsgs == getThreadChain(allDbMessages, rootId)
         IN <<[role |-> rootMsg.role, content |-> rootMsg.content]>>
            \o [k \in 1..Len(threadMsgs) |->
                  [role |-> threadMsgs[k].role, content |-> threadMsgs[k].content]]
    ELSE <<>>

\* main chat mode: buildConversationPath up to the saved user row; the row
\* itself is taken from the request
MainHistory(allDbMessages, savedUserId, userMessage) ==
    LET conversationPath == buildConversationPath(allDbMessages, savedUserId)
    IN [k \in 1..Len(conversationPath) |->
          IF conversationPath[k].id = savedUserId
          THEN [role |-> "user", content |-> userMessage]
          ELSE [role |-> conversationPath[k].role,
                content |-> conversationPath[k].content]]

\* thread mode with the content of every turn: the root and the chain with
\* their stored text, the new turn from the request
ThreadHistoryContent(allDbMessages, rootId, savedUserId, userMessage, files) ==
    LET rows == ThreadHistoryRows(allDbMessages, rootId) IN
    [k \in 1..Len(rows) |->
        [id |-> rows[k].id, role |-> rows[k].role,
         content |-> PlainContent(rows[k].content)]]
    \o <<[id |-> savedUserId, role |-> "user",
          content |-> buildUserContent(userMessage, files)]>>

\* main chat mode with the content of every turn: the current message from
\* the request, a user message with stored attachments rebuilt from them,
\* any other message with its stored text
MainHistoryContent(allDbMessages, fileRows, savedUserId, userMessage, files) ==
    LET conversationPath == buildConversationPath(allDbMessages, savedUserId)
        pathMessageIds == Ids(conversationPath)
        allMessageFiles == getMessageFilesForMessages(fileRows, pathMessageIds)
    IN [k \in 1..Len(conversationPath) |->
          LET msg == conversationPath[k] IN
          [id |-> msg.id,
           role |-> IF msg.id = savedUserId THEN "user" ELSE msg.role,
           content |-> IF msg.id = savedUserId
                       THEN buildUserContent(userMessage, files)
                       ELSE HistoricalContent(msg, FilesOfMessage(allMessageFiles, msg.id))]]

\* storage.getMessages and the history handed to anthropic.messages.stream
ServerBuildHistory ==
    \E s \in Slots :
       LET r == reqs[s]
           allDbMessages == getMessagesOf(store, r.conversationId)
       IN
       /\ r.pc = "saved"
       /\ reqs' = [reqs EXCEPT
            ![s].pc = "streaming",
            ![s].status = 200,
            ![s].claudeMessages =
                IF r.threadContext /\ r.threadRootId # NULL
                THEN ThreadHistory(allDbMessages, r.threadRootId)
                        \o <<[role |-> "user", content |-> r.message]>>
                ELSE MainHistory(allDbMessages, r.savedUserId, r.message),
            ![s].historyIds =
                IF r.threadContext /\ r.threadRootId # NULL
                THEN IdsOf(ThreadHistoryRows(allDbMessages, r.threadRootId))
                        \o <<r.savedUserId>>
                ELSE IdsOf(buildConversationPath(allDbMessages, r.savedUserId))]
       /\ UNCHANGED <<store, nextId, clock>>
       /\ UNCHANGED clientVars

\* mutant: fullContent is one accumulator shared by the requests
StreamText_shared ==
    \E s \in Slots :
       /\ reqs[s].pc = "streaming"
       /\ Len(reqs[s].fullContent) < MaxFrags
       /\ LET text == ReplyFragment(reqs[s].message, Len(reqs[s].fullContent)) IN
          reqs' = [x \in Slots |->
                     IF x = s
                     THEN [reqs[x] EXCEPT
                             !.fullContent = reqs[x].fullContent \o text,
                             !.written = Append(reqs[x].written, TextEvent(text))]
                     ELSE IF reqs[x].pc = "streaming"
                     THEN [reqs[x] EXCEPT !.fullContent = reqs[x].fullContent \o text]
                     ELSE reqs[x]]
       /\ UNCHANGED <<store, nextId, clock>>
       /\ UNCHANGED clientVars

\* stream.on('text'): the fragment is accumulated (and relayed)
StreamText ==
    \E s \in Slots :
       /\ reqs[s].pc = "streaming"
       /\ Len(reqs[s].fullContent) < MaxFrags
       /\ LET text == ReplyFragment(reqs[s].message, Len(reqs[s].fullContent)) IN
          reqs' = [reqs EXCEPT
                     ![s].fullContent = reqs[s].fullContent \o text,
                     ![s].written = Append(reqs[s].written, TextEvent(text))]
       /\ UNCHANGED <<store, nextId, clock>>
       /\ UNCHANGED clientVars

\* the assistant row of a request, with the route's locals at the end of
\* the stream; a row without the thread flag of the request
AssistantRow_mainTree(r) ==
    NewRowIn(r.conversationId, r.savedUserId, "assistant", r.fullContent, FALSE)

AssistantRow(r) ==
    NewRowIn(r.conversationId, r.savedUserId, "assistant", r.fullContent,
             r.threadContext)

\* stream.finalMessage() resolves: the assistant row is created and the
\* response ended.  If the user row is gone the insert throws after the
\* headers were sent and the response is never ended by the route.
StreamEnd ==
    \E s \in Slots :
       LET r == reqs[s] IN
       /\ r.pc = "streaming"
       /\ IF InsertAllowed(store, r.savedUserId)
          THEN /\ store' = createMessage(store, AssistantRow(r))
               /\ clock' = clock + 1
               /\ reqs' = [reqs EXCEPT ![s].pc = "complete",
                                       ![s].assistantId = nextId,
                                       ![s].written = Append(r.written, DoneEvent),
                                       ![s].ended = TRUE,
                                       ![s].claudeMessages = <<>>,
                                       ![s].historyIds = <<>>]
          ELSE /\ reqs' = [reqs EXCEPT ![s].pc = "broken",
                                       ![s].claudeMessages = <<>>,
                                       ![s].historyIds = <<>>]
               /\ UNCHANGED <<store, clock>>
       /\ nextId' = nextId + 1
       /\ UNCHANGED clientVars

\* the error handler saving what was streamed so far
StreamError_persistPartial ==
    \E s \in Slots :
       /\ reqs[s].pc = "streaming"
       /\ reqs' = [reqs EXCEPT ![s].pc = "complete", ![s].streamError = TRUE,
                               ![s].written = reqs[s].written
                                                 \o <<ErrorEvent, DoneEvent>>,
                               ![s].ended = TRUE,
                               ![s].claudeMessages = <<>>,
                               ![s].historyIds = <<>>]
       /\ IF InsertAllowed(store, reqs[s].savedUserId)
          THEN /\ store' = Append(store, AssistantRow(reqs[s]))
               /\ clock' = clock + 1
          ELSE UNCHANGED <<store, clock>>
       /\ nextId' = nextId + 1
       /\ UNCHANGED clientVars

\* stream.on('error'): the error event and [DONE] are written, the response
\* is ended, no assistant row is created
StreamError ==
    \E s \in Slots :
       /\ reqs[s].pc = "streaming"
       /\ reqs' = [reqs EXCEPT ![s].pc = "complete", ![s].streamError = TRUE,
                               ![s].written = reqs[s].written
                                                 \o <<ErrorEvent, DoneEvent>>,
                               ![s].ended = TRUE,
                               ![s].claudeMessages = <<>>,
                               ![s].historyIds = <<>>]
       /\ UNCHANGED <<store, nextId, clock>>
       /\ UNCHANGED clientVars

\* ---- the handlers after the fetch ---------------------------------------

\* mutant: the index of the edited message itself is kept
NewBranchIndex_own(closureMessages, targetId) ==
    FindIndex(getSiblings(closureMessages, FindMessage(closureMessages, targetId)),
              targetId)

\* getSiblings(messages, editedMessage).length, on the messages the handler
\* closed over when it was called
NewBranchIndex(closureMessages, targetId) ==
    Len(getSiblings(closureMessages, FindMessage(closureMessages, targetId)))

\* setBranchSelections(prev => ({...prev, [normalizedKey]: newIndex}))
SetSelection(sel, key, index) ==
    [k \in DOMAIN sel \cup {key} |-> IF k = key THEN index ELSE sel[k]]

\* the branch selection after the awaited handleSendMessage returned
AfterSend(r) ==
    IF r.kind \in {"edit", "regenerate"}
    THEN SetSelection(branchSelections,
                      normalizeParentId(FindMessage(r.messages, r.target).parentMessageId),
                      NewBranchIndex(r.messages, r.target))
    ELSE branchSelections

\* the response stream ended: the queries are invalidated and refetched,
\* the streaming flag is reset, edit and regenerate select the new branch
ClientFinish ==
    \E s \in Slots :
       LET r == reqs[s] IN
       /\ r.pc = "complete"
       /\ cMessages' = getMessages(store)
       /\ branchSelections' = AfterSend(r)
       /\ isStreaming' = IF r.kind = "thread" THEN isStreaming ELSE FALSE
       /\ threadStreaming' =
             IF (r.kind = "thread" /\ r.mounted) \/ Unmounts(cMessages', threadRootId)
             THEN FALSE ELSE threadStreaming
       /\ reqs' = IF Unmounts(cMessages', threadRootId)
                  THEN Detach([reqs EXCEPT ![s] = FreeReq])
                  ELSE [reqs EXCEPT ![s] = FreeReq]
       /\ UNCHANGED <<store, nextId, clock, threadRootId>>

\* the response was an HTTP error (or the connection broke): the catch of
\* handleSendMessage resets the flag, nothing is refetched; edit and
\* regenerate go on to set the branch selection
ClientFinishError ==
    \E s \in Slots :
       LET r == reqs[s] IN
       /\ r.pc \in {"rejected", "broken"}
       /\ branchSelections' = AfterSend(r)
       /\ isStreaming' = IF r.kind = "thread" THEN isStreaming ELSE FALSE
       /\ threadStreaming' =
             IF r.kind = "thread" /\ r.mounted THEN FALSE ELSE threadStreaming
       /\ reqs' = [reqs EXCEPT ![s] = FreeReq]
       /\ UNCHANGED <<store, nextId, clock, cMessages, threadRootId>>

\* deleteMessageMutation: DELETE /api/messages/:id, then the messages query
\* is invalidated; the delete button of a displayed message
DeleteMessage ==
    \E k \in DOMAIN displayMessages :
       /\ store' = deleteMessage(store, displayMessages[k].id)
       /\ cMessages' = getMessages(store')
       /\ IF Unmounts(cMessages', threadRootId)
          THEN threadStreaming' = FALSE /\ reqs' = Detach(reqs)
          ELSE UNCHANGED <<threadStreaming, reqs>>
       /\ UNCHANGED <<nextId, clock, branchSelections, isStreaming, threadRootId>>

\* handleBranchNavigate(parentId, direction): the branch selections it sets
handleBranchNavigate(sel, messages, parentId, direction) ==
    LET normalizedKey == normalizeParentId(parentId)
        currentIndex == SelectedIndex(sel, normalizedKey)
        siblings == getSiblings(messages, [parentMessageId |-> parentId])
        newIndex == IF direction = "prev" /\ currentIndex > 0
                    THEN currentIndex - 1
                    ELSE IF direction = "next" /\ currentIndex < Len(siblings) - 1
                         THEN currentIndex + 1
                         ELSE currentIndex
    IN SetSelection(sel, normalizedKey, newIndex)

\* the BranchNavigator of a displayed message: shown for more than one
\* sibling, prev disabled at index 0, next disabled at the last index
NavigatorEnabled(entry, direction) ==
    /\ Len(entry.siblings) > 1
    /\ direction = "prev" => entry.index # 0
    /\ direction = "next" => entry.index # Len(entry.siblings) - 1

\* handleBranchNavigate(parentId, direction), from the BranchNavigator of a
\* displayed message
BranchNavigate ==
    \E k \in DOMAIN displayMessages, direction \in {"prev", "next"} :
       LET message == displayMessages[k]
           entry == SiblingsMapEntry(cMessages, message)
       IN /\ NavigatorEnabled(entry, direction)
          /\ branchSelections' = handleBranchNavigate(branchSelections, cMessages,
                                       message.parentMessageId, direction)
          /\ UNCHANGED <<store, nextId, clock, reqs, cMessages, isStreaming,
                         threadRootId, threadStreaming>>

\* handleOpenThread(messageId): the thread button of a displayed message that
\* is not a user message
OpenThread ==
    \E k \in DOMAIN displayMessages :
       /\ displayMessages[k].role # "user"
       /\ threadRootId' = displayMessages[k].id
       /\ UNCHANGED <<store, nextId, clock, reqs, cMessages, branchSelections,
                      isStreaming, threadStreaming>>

\* handleCloseThread, the close button of the ThreadPanel
CloseThread ==
    /\ threadPanelOpen
    /\ threadRootId' = NULL
    /\ threadStreaming' = FALSE
    /\ reqs' = Detach(reqs)
    /\ UNCHANGED <<store, nextId, clock, cMessages, branchSelections,
                   isStreaming>>

\* a refetch of the messages query (window focus, remount)
Refetch ==
    /\ cMessages' = getMessages(store)
    /\ IF Unmounts(cMessages', threadRootId)
       THEN threadStreaming' = FALSE /\ reqs' = Detach(reqs)
       ELSE UNCHANGED <<threadStreaming, reqs>>
    /\ UNCHANGED <<store, nextId, clock, branchSelections, isStreaming,
                   threadRootId>>

\* POST /api/messages: insertMessageSchema.parse, storage.createMessage
PostMessage ==
    /\ IdsLeft(1)
    /\ Cardinality({r \in Range(store) : r.content = "p"}) < MaxPosts
    /\ \E parent \in {NULL} \cup Ids(store), role \in {"user", "assistant"},
          thread \in BOOLEAN :
          /\ store' = createMessage(store, NewRow(parent, role, "p", thread))
          /\ nextId' = nextId + 1
          /\ clock' = clock + 1
    /\ UNCHANGED reqs
    /\ UNCHANGED clientVars

Next ==
    \/ StartSend /\ UNCHANGED pureVars
    \/ StartEdit /\ UNCHANGED pureVars
    \/ StartRegenerate /\ UNCHANGED pureVars
    \/ StartThreadSend /\ UNCHANGED pureVars
    \/ ServerSaveUser /\ UNCHANGED pureVars
    \/ SendFails /\ UNCHANGED pureVars
    \/ ServerBuildHistory /\ UNCHANGED pureVars
    \/ StreamText /\ UNCHANGED pureVars
    \/ StreamEnd /\ UNCHANGED pureVars
    \/ StreamError /\ UNCHANGED pureVars
    \/ ClientFinish /\ UNCHANGED pureVars
    \/ ClientFinishError /\ UNCHANGED pureVars
    \/ DeleteMessage /\ UNCHANGED pureVars
    \/ BranchNavigate /\ UNCHANGED pureVars
    \/ OpenThread /\ UNCHANGED pureVars
    \/ CloseThread /\ UNCHANGED pureVars
    \/ Refetch /\ UNCHANGED pureVars
    \/ PostMessage /\ UNCHANGED pureVars

Spec == Init /\ [][Next]_vars

(***************************************************************************)
(* Part III: SpecTree, the pure functions on bounded message lists         *)
(***************************************************************************)

MaxTreeMsgs == 3        \* longest message list handed to a tree function
MaxSelKeys == 1         \* most parent keys a selection map sets

\* an id no message of a list carries (a deleted or foreign row)
MissingId == MaxTreeMsgs + 2

\* A row as the tree functions read it; they read neither role nor content.
TreeRow(i, parent, thread) ==
    [id |-> i, parentMessageId |-> parent, role |-> "user", content |-> "m",
     isThreadMessage |-> thread, createdAt |-> i]

\* Lists as getMessages returns them: ordered by creation, ids increasing,
\* every parent null or an earlier row (the foreign key of the table).
TreeLists ==
    UNION {
      { [i \in 1..n |-> TreeRow(i, ps[i], ts[i])] :
          ps \in { f \in [1..n -> {NULL} \cup (1..n)] :
                      \A i \in 1..n : f[i] = NULL \/ f[i] < i },
          ts \in [1..n -> BOOLEAN] }
      : n \in 0..MaxTreeMsgs }

\* every parentMessageId is null or the id of an earlier message of the list
ValidForest(messages) ==
    \A i \in DOMAIN messages :
       \/ messages[i].parentMessageId = NULL
       \/ \E j \in 1..(i - 1) : messages[j].id = messages[i].parentMessageId

SelKeys(messages) == {ROOT_PARENT_KEY} \cup Ids(messages)
SelValues == -1..MaxTreeMsgs

\* BranchSelection maps: at most MaxSelKeys keys set, to an index that may
\* be negative or beyond every sibling count
SelMaps(messages) ==
    UNION { [d -> SelValues] :
              d \in { k \in SUBSET SelKeys(messages) : Cardinality(k) <= MaxSelKeys } }

InitTree ==
    /\ tMessages \in TreeLists
    /\ tSel = EmptySel
    /\ tOp = "none"
    /\ tArg = NULL
    /\ tOut = <<>>
    /\ tReturned = TRUE
    /\ tIndex = 0
    /\ tPrev = <<>>
    /\ machineInit
    /\ contentIdle

\* getActivePath(messages, branchSelections)
TActivePath ==
    /\ tOp = "none"
    /\ \E sel \in SelMaps(tMessages) :
          LET run == getActivePathRun(tMessages, sel) IN
          /\ tOp' = "getActivePath"
          /\ tSel' = sel
          /\ tOut' = run.path
          /\ tReturned' = run.returned
          /\ UNCHANGED <<tMessages, tArg, tIndex, tPrev>>

\* one more leaf, created after every message of the list, under a parent
\* whose branch selection is unset; the active path before and after
TAppendLeaf ==
    /\ tOp = "none"
    /\ Len(tMessages) < MaxTreeMsgs
    /\ \E parent \in {NULL} \cup Ids(tMessages), thread \in BOOLEAN,
          sel \in SelMaps(tMessages) :
          LET leaf == TreeRow(Len(tMessages) + 1, parent, thread)
              run == getActivePathRun(Append(tMessages, leaf), sel)
          IN /\ normalizeParentId(parent) \notin DOMAIN sel
             /\ tPrev' = getActivePath(tMessages, sel)
             /\ tMessages' = Append(tMessages, leaf)
             /\ tOp' = "appendLeaf"
             /\ tArg' = leaf.id
             /\ tSel' = sel
             /\ tOut' = run.path
             /\ tReturned' = run.returned
             /\ UNCHANGED tIndex

\* getSiblings(allMessages, message) and the index of siblingsMap
TSiblings ==
    /\ tOp = "none"
    /\ \E i \in DOMAIN tMessages :
          LET entry == SiblingsMapEntry(tMessages, tMessages[i]) IN
          /\ tOp' = "getSiblings"
          /\ tArg' = tMessages[i].id
          /\ tOut' = entry.siblings
          /\ tIndex' = entry.index
          /\ UNCHANGED <<tMessages, tSel, tReturned, tPrev>>

\* getThreadMessages(messages, rootMessageId, branchSelections)
TThreadMessages ==
    /\ tOp = "none"
    /\ \E root \in Ids(tMessages) \cup {MissingId}, sel \in SelMaps(tMessages) :
          LET run == getThreadMessagesRun(tMessages, root, sel) IN
          /\ tOp' = "getThreadMessages"
          /\ tArg' = root
          /\ tSel' = sel
          /\ tOut' = run.path
          /\ tReturned' = run.returned
          /\ UNCHANGED <<tMessages, tIndex, tPrev>>

\* buildConversationPath(messages, targetMessageId)
TConversationPath ==
    /\ tOp = "none"
    /\ \E target \in Ids(tMessages) \cup {MissingId},
          hidden \in {{}} \cup {{id} : id \in Ids(tMessages)} :
          \* the list is that of one conversation: a row of another
          \* conversation, parent of a row of this one or not, is not in it
          LET allDbMessages == SelectSeq(tMessages, LAMBDA m : m.id \notin hidden)
              run == buildConversationPathRun(allDbMessages, target)
          IN /\ tOp' = "buildConversationPath"
             /\ tMessages' = allDbMessages
             /\ tArg' = target
             /\ tOut' = run.path
             /\ tReturned' = run.returned
             /\ UNCHANGED <<tSel, tIndex, tPrev>>

\* the orders a list can be handed over in
ListOrders(n) ==
    {f \in [1..n -> 1..n] : \A i, j \in 1..n : f[i] = f[j] => i = j}

\* new Date(createdAt).getTime(): the time in milliseconds; g ticks of the
\* database clock fall into one millisecond
Millis(createdAt, g) == (createdAt + g - 1) \div g

\* buildMessageTree(messages, includeThreadMessages) on a list, on the same
\* list again, and on the list in another order
TBuildTree ==
    /\ tOp = "none"
    /\ \E g \in {1, 2}, perm \in ListOrders(Len(tMessages)),
          includeThreadMessages \in BOOLEAN :
          LET list == [i \in DOMAIN tMessages |->
                         [tMessages[i] EXCEPT
                             !.createdAt = Millis(tMessages[i].createdAt, g)]]
              permuted == [i \in DOMAIN list |-> list[perm[i]]]
          IN /\ tOp' = "buildMessageTree"
             /\ tMessages' = list
             /\ tPrev' = permuted
             /\ tOut' = [first |-> buildMessageTree(list, includeThreadMessages),
                         again |-> buildMessageTree(list, includeThreadMessages),
                         permuted |-> buildMessageTree(permuted, includeThreadMessages),
                         includeThreadMessages |-> includeThreadMessages]
             /\ UNCHANGED <<tSel, tArg, tReturned, tIndex>>

NextTree ==
    \/ TActivePath /\ UNCHANGED <<serverVars, clientVars, contentVars>>
    \/ TBuildTree /\ UNCHANGED <<serverVars, clientVars, contentVars>>
    \/ TAppendLeaf /\ UNCHANGED <<serverVars, clientVars, contentVars>>
    \/ TSiblings /\ UNCHANGED <<serverVars, clientVars, contentVars>>
    \/ TThreadMessages /\ UNCHANGED <<serverVars, clientVars, contentVars>>
    \/ TConversationPath /\ UNCHANGED <<serverVars, clientVars, contentVars>>

SpecTree == InitTree /\ [][NextTree]_vars

(***************************************************************************)
(* Part IV: SpecContent, user content with attachments                     *)
(***************************************************************************)
MaxFiles == 2

\* request inputs
MimeTypes ==
    {"image/png", "image/bmp", "application/pdf", "application/json",
     "text/x-log", "application/zip"}

FileInputs ==
    [filename : {"f"}, originalName : {"a", "b"}, mimeType : MimeTypes,
     size : {1}, data : DataValues]

FileLists == UNION {[1..n -> FileInputs] : n \in 0..MaxFiles}

\* id of the user message the attachments belong to, and of an earlier one
ThisMessageId == 2
OtherMessageId == 1

\* rows another message of the path may already have
OtherRows ==
    {<<>>,
     <<MessageFileRow(OtherMessageId,
                      [filename |-> "f", originalName |-> "b",
                       mimeType |-> "text/plain", size |-> 1, data |-> "QQ=="],
                      0)>>}

InitContent ==
    /\ uText \in {"q", "QQ=="}
    /\ uFiles \in FileLists
    /\ uOp = "none"
    /\ uContent = PlainContent("")
    /\ uStored = <<>>
    /\ uRebuilt = PlainContent("")
    /\ treeIdle
    /\ machineInit

\* buildUserContent(userMessage, files)
CBuildUserContent ==
    /\ uOp = "none"
    /\ uOp' = "buildUserContent"
    /\ uContent' = buildUserContent(uText, uFiles)
    /\ UNCHANGED <<uText, uFiles, uStored, uRebuilt>>

\* the request stores the attachments and builds the content of the current
\* message from the request files; a later request, with the message on its
\* path, rebuilds the content from the stored rows
CStoreAndRebuild ==
    /\ uOp = "none"
    /\ \E other \in OtherRows :
          LET rows == SaveFiles(other, ThisMessageId, uFiles)
              msg == [id |-> ThisMessageId, role |-> "user", content |-> uText]
              allMessageFiles ==
                  getMessageFilesForMessages(rows, {OtherMessageId, ThisMessageId})
          IN /\ uOp' = "rebuild"
             /\ uContent' = buildUserContent(uText, uFiles)
             /\ uStored' = rows
             /\ uRebuilt' = HistoricalContent(msg, FilesOfMessage(allMessageFiles, msg.id))
             /\ UNCHANGED <<uText, uFiles>>

NextContent ==
    \/ CBuildUserContent /\ UNCHANGED <<treeVars, serverVars, clientVars>>
    \/ CStoreAndRebuild /\ UNCHANGED <<treeVars, serverVars, clientVars>>

SpecContent == InitContent /\ [][NextContent]_vars

(***************************************************************************)
(* Part V: SpecApi, the store and the chat endpoint under any caller       *)
(***************************************************************************)

\* a parent id no row has
MissingParent == MaxId + 1

\* one attachment of a request
OneFile ==
    [filename |-> "f", originalName |-> "a", mimeType |-> "text/plain",
     size |-> 1, data |-> "QQ"]

\* bodies that fail chatRequestSchema or lack conversationId: an empty
\* message, a model outside the enum, no conversationId
MalformedBodies ==
    {[ClientReq EXCEPT !.message = "", !.files = <<OneFile>>],
     [ClientReq EXCEPT !.message = "q", !.model = "gpt-4", !.files = <<OneFile>>],
     [ClientReq EXCEPT !.message = "q", !.conversationId = NULL,
                       !.files = <<OneFile>>]}

\* bodies that pass: any conversation, any parent id, main or thread mode
\* with any root, with an attachment
ValidBodies(rows) ==
    {[ClientReq EXCEPT !.message = "q",
                       !.conversationId = c,
                       !.parentMessageId = parent,
                       !.threadContext = (root # NULL),
                       !.threadRootId = root,
                       !.files = <<OneFile>>] :
        c \in {ViewConversation, OtherConversation},
        parent \in {NULL, MissingParent} \cup Ids(rows),
        root \in {NULL} \cup Ids(rows)}

\* POST /api/chat by any caller
ApiChat ==
    \E s \in Slots :
       /\ FreeSlot(s)
       /\ \E body \in MalformedBodies \cup ValidBodies(store) :
             /\ ValidChatRequest(body) => IdsLeft(2)
             /\ reqs' = [reqs EXCEPT ![s] =
                           [body EXCEPT !.pc = "sent", !.kind = "api"]]
       /\ UNCHANGED <<store, nextId, clock>>
       /\ UNCHANGED clientVars

\* the caller has the response, or gives up on one that is never ended
ApiClose ==
    \E s \in Slots :
       /\ reqs[s].kind = "api"
       /\ reqs[s].pc \in {"invalid", "rejected", "complete", "broken"}
       /\ reqs' = [reqs EXCEPT ![s] = FreeReq]
       /\ UNCHANGED <<store, nextId, clock>>
       /\ UNCHANGED clientVars

\* DELETE /api/messages/:id by any caller
ApiDelete ==
    /\ \E id \in Ids(store) : store' = deleteMessage(store, id)
    /\ UNCHANGED <<nextId, clock, reqs>>
    /\ UNCHANGED clientVars

\* POST /api/messages naming another conversation than the parent's
PostForeign ==
    /\ IdsLeft(1)
    /\ Cardinality({r \in Range(store) : r.content = "p"}) < MaxPosts
    /\ \E parent \in {NULL} \cup Ids(store), role \in {"user", "assistant"},
          thread \in BOOLEAN :
          /\ store' = createMessage(store,
                         NewRowIn(OtherConversation, parent, role, "p", thread))
          /\ nextId' = nextId + 1
          /\ clock' = clock + 1
    /\ UNCHANGED reqs
    /\ UNCHANGED clientVars

NextApi ==
    \/ ApiChat /\ UNCHANGED pureVars
    \/ ServerSaveUser /\ UNCHANGED pureVars
    \/ ServerBuildHistory /\ UNCHANGED pureVars
    \/ StreamText /\ UNCHANGED pureVars
    \/ StreamEnd /\ UNCHANGED pureVars
    \/ StreamError /\ UNCHANGED pureVars
    \/ ApiClose /\ UNCHANGED pureVars
    \/ ApiDelete /\ UNCHANGED pureVars
    \/ PostMessage /\ UNCHANGED pureVars
    \/ PostForeign /\ UNCHANGED pureVars

SpecApi == Init /\ [][NextApi]_vars

(***************************************************************************)
(* Part VI: SpecHistory, the history of one chat request and its contents  *)
(***************************************************************************)

\* one text attachment and one image attachment
TextFile ==
    [filename |-> "f", originalName |-> "a", mimeType |-> "text/plain",
     size |-> 1, data |-> "QQ"]
ImageFile ==
    [filename |-> "g", originalName |-> "b", mimeType |-> "image/png",
     size |-> 1, data |-> "/w=="]

\* Stores as getMessages returns them, with any role on any row
HistoryLists ==
    UNION {
      { [i \in DOMAIN l |-> [l[i] EXCEPT !.role = roles[i]]] :
          roles \in [DOMAIN l -> {"user", "assistant"}] }
      : l \in TreeLists }

\* the attachment table after the user rows in having were sent through the
\* chat endpoint with a text attachment each, in the order of the rows
RECURSIVE FileTable(_, _, _)
FileTable(rows, messages, having) ==
    IF messages = <<>> THEN rows
    ELSE FileTable(IF Head(messages).id \in having
                   THEN SaveFiles(rows, Head(messages).id, <<TextFile>>)
                   ELSE rows,
                   Tail(messages), having)

InitHistory ==
    /\ tMessages \in HistoryLists
    /\ \E having \in SUBSET {m.id : m \in {x \in Range(tMessages) : x.role = "user"}} :
          uStored = FileTable(<<>>, tMessages, having)
    /\ tSel = EmptySel
    /\ tOp = "none"
    /\ tArg = NULL
    /\ tOut = <<>>
    /\ tReturned = TRUE
    /\ tIndex = 0
    /\ tPrev = <<>>
    /\ uText = "q"
    /\ uFiles = <<>>
    /\ uOp = "none"
    /\ uContent = PlainContent("")
    /\ uRebuilt = PlainContent("")
    /\ machineInit

\* POST /api/chat from the commit of the user row to the history handed to
\* the model: the row and its attachments are saved, the store is read
\* back, the history is built in thread mode or in main chat mode
HChat ==
    /\ tOp = "none"
    /\ \E parent \in {NULL} \cup Ids(tMessages),
          root \in {NULL} \cup Ids(tMessages),
          files \in {<<>>, <<ImageFile>>} :
          LET threadContext == root # NULL
              savedUserMessage ==
                  [TreeRow(Len(tMessages) + 1, parent, threadContext)
                      EXCEPT !.content = uText]
              allDbMessages == Append(tMessages, savedUserMessage)
              fileRows == SaveFiles(uStored, savedUserMessage.id, files)
          IN /\ tOp' = IF threadContext THEN "thread" ELSE "main"
             /\ tArg' = root
             /\ tIndex' = savedUserMessage.id
             /\ tMessages' = allDbMessages
             /\ uStored' = fileRows
             /\ uFiles' = files
             /\ tOut' = IF threadContext
                        THEN ThreadHistoryContent(allDbMessages, root,
                                 savedUserMessage.id, uText, files)
                        ELSE MainHistoryContent(allDbMessages, fileRows,
                                 savedUserMessage.id, uText, files)
             /\ UNCHANGED <<tSel, tReturned, tPrev, uText, uOp, uContent, uRebuilt>>

NextHistory ==
    HChat /\ UNCHANGED <<serverVars, clientVars>>

SpecHistory == InitHistory /\ [][NextHistory]_vars

(***************************************************************************)
(* Part VII: SpecPair, chat requests racing on one conversation            *)
(***************************************************************************)

InitPair == treeIdle /\ machineInitWith(MaxPair) /\ contentIdle

\* POST /api/chat in main chat mode on the conversation of the view, under
\* any row of the store or under none; the request of the second slot
\* carries another prompt than that of the first
PairChat ==
    \E s \in Slots :
       /\ FreeSlot(s)
       /\ IdsLeft(2)
       /\ \E parent \in {NULL} \cup Ids(store) :
             reqs' = [reqs EXCEPT ![s] =
                        [ClientReq EXCEPT !.pc = "sent", !.kind = "api",
                                        !.message = IF s = 1 THEN "q" ELSE "w",
                                        !.parentMessageId = parent]]
       /\ UNCHANGED <<store, nextId, clock>>
       /\ UNCHANGED clientVars

NextPair ==
    \/ PairChat /\ UNCHANGED pureVars
    \/ ServerSaveUser /\ UNCHANGED pureVars
    \/ ServerBuildHistory /\ UNCHANGED pureVars
    \/ StreamText /\ UNCHANGED pureVars
    \/ StreamEnd /\ UNCHANGED pureVars
    \/ StreamError /\ UNCHANGED pureVars
    \/ ApiClose /\ UNCHANGED pureVars

SpecPair == InitPair /\ [][NextPair]_vars

(***************************************************************************)
(* Part VIII: SpecView, the main view with room for a second request       *)
(***************************************************************************)

InitView == treeIdle /\ machineInitWith(MaxPair) /\ contentIdle

NextView ==
    \/ StartSend /\ UNCHANGED pureVars
    \/ StartEdit /\ UNCHANGED pureVars
    \/ StartRegenerate /\ UNCHANGED pureVars
    \/ ServerSaveUser /\ UNCHANGED pureVars
    \/ SendFails /\ UNCHANGED pureVars
    \/ ServerBuildHistory /\ UNCHANGED pureVars
    \/ StreamText /\ UNCHANGED pureVars
    \/ StreamEnd /\ UNCHANGED pureVars
    \/ StreamError /\ UNCHANGED pureVars
    \/ ClientFinish /\ UNCHANGED pureVars
    \/ ClientFinishError /\ UNCHANGED pureVars
    \/ DeleteMessage /\ UNCHANGED pureVars
    \/ Refetch /\ UNCHANGED pureVars

SpecView == InitView /\ [][NextView]_vars

\* the handler of a request answered with an error status returns
ClientFinishRejected ==
    /\ ClientFinishError
    /\ \E s \in Slots : reqs[s].pc = "rejected" /\ reqs'[s].pc = "free"

\* The server runs every handler on, the model stream ends one way or the
\* other, and the page handles every response that was ended.  A response
\* that is never ended is closed by nobody.
FairView ==
    /\ WF_vars(ServerSaveUser /\ UNCHANGED pureVars)
    /\ WF_vars(ServerBuildHistory /\ UNCHANGED pureVars)
    /\ WF_vars((StreamEnd \/ StreamError) /\ UNCHANGED pureVars)
    /\ WF_vars(ClientFinish /\ UNCHANGED pureVars)
    /\ WF_vars(ClientFinishRejected /\ UNCHANGED pureVars)

SpecViewFair == SpecView /\ FairView

(***************************************************************************)
(* Claims on the pure functions (checked under SpecTree)                   *)
(***************************************************************************)

Clamp(v, lo, hi) == IF v < lo THEN lo ELSE IF v > hi THEN hi ELSE v

\* positions of the non-thread messages attached at a normalized parent key
MainGroup(messages, key) ==
    {i \in DOMAIN messages :
        /\ ~messages[i].isThreadMessage
        /\ (IF messages[i].parentMessageId = NULL THEN ROOT_PARENT_KEY
            ELSE messages[i].parentMessageId) = key}

\* the member of that group with r members created before it (members of
\* equal creation time keep their list order)
MainGroupAt(messages, key, r) ==
    LET g == MainGroup(messages, key)
        before(i) == {j \in g : \/ messages[j].createdAt < messages[i].createdAt
                                \/ /\ messages[j].createdAt = messages[i].createdAt
                                   /\ j < i}
    IN messages[CHOOSE i \in g : Cardinality(before(i)) = r]

NoRepeatedIds(path) ==
    \A i, j \in DOMAIN path : path[i].id = path[j].id => i = j

RECURSIVE DepthOf(_, _)
DepthOf(messages, id) ==
    IF id \notin Ids(messages) THEN 0
    ELSE 1 + DepthOf(messages,
                     (CHOOSE m \in Range(messages) : m.id = id).parentMessageId)

MaxDepth(messages) ==
    IF messages = <<>> THEN 0
    ELSE CHOOSE d \in 0..Len(messages) :
            /\ \E m \in Range(messages) : DepthOf(messages, m.id) = d
            /\ \A m \in Range(messages) : DepthOf(messages, m.id) <= d

RECURSIVE AncestorsOrSelf(_, _)
AncestorsOrSelf(messages, id) ==
    IF id \notin Ids(messages) THEN {}
    ELSE {id} \cup AncestorsOrSelf(messages,
                     (CHOOSE m \in Range(messages) : m.id = id).parentMessageId)

\* C1: for a valid forest and any selection map, getActivePath returns a
\* root-to-leaf chain: the first element has a null parent, every later
\* element is attached to the element before it, each element is the child at
\* index clamp(branchSelections[key] ?? 0, 0, childCount - 1) of its
\* non-thread sibling group sorted by creation time, the last element has no
\* non-thread child, and the path is empty exactly when there is no
\* non-thread root-level message.
C1_ActivePathIsSelectedChain ==
    (tOp = "getActivePath" /\ ValidForest(tMessages)) =>
       /\ tReturned
       /\ (tOut = <<>>) <=> (MainGroup(tMessages, ROOT_PARENT_KEY) = {})
       /\ \A k \in DOMAIN tOut :
             LET key == IF k = 1 THEN ROOT_PARENT_KEY ELSE tOut[k - 1].id
                 childCount == Cardinality(MainGroup(tMessages, key))
             IN /\ tOut[k].parentMessageId = (IF k = 1 THEN NULL ELSE tOut[k - 1].id)
                /\ childCount > 0
                /\ tOut[k] = MainGroupAt(tMessages, key,
                                 Clamp(SelectedIndex(tSel, key), 0, childCount - 1))
       /\ tOut # <<>> => MainGroup(tMessages, tOut[Len(tOut)].id) = {}

\* the walk consulted a selection beyond the sibling count of a group of two
\* (clamped to the newer sibling), in a list that also holds a thread message
C1_Witness ==
    /\ tOp = "getActivePath"
    /\ ValidForest(tMessages)
    /\ tOut # <<>>
    /\ \E k \in DOMAIN tSel :
          /\ k = ROOT_PARENT_KEY \/ k \in Ids(tOut)
          /\ Cardinality(MainGroup(tMessages, k)) = 2
          /\ tSel[k] > 1
    /\ \E m \in Range(tMessages) : m.isThreadMessage

\* C2: for a valid forest and any selection map the walk of getActivePath
\* terminates, and the path has no repeated ids and is no longer than the
\* maximum depth of the forest.
C2_ActivePathTerminatesBounded ==
    (tOp = "getActivePath" /\ ValidForest(tMessages)) =>
       /\ tReturned
       /\ NoRepeatedIds(tOut)
       /\ Len(tOut) <= MaxDepth(tMessages)

\* a walk that reaches the full depth of a forest of depth three
C2_Witness ==
    /\ tOp = "getActivePath"
    /\ ValidForest(tMessages)
    /\ tReturned
    /\ Len(tOut) = 3
    /\ MaxDepth(tMessages) = 3

\* C3: default-0 stability.  After a leaf created after every existing message
\* is appended under a parent whose selection is unset, every id of the path
\* before the append is in the path after it at the same position, and the
\* path has grown by nothing or by the new leaf at its end.
C3_DefaultZeroStability ==
    tOp = "appendLeaf" =>
       LET leaf == tMessages[Len(tMessages)] IN
       /\ \A k \in DOMAIN tPrev : k \in DOMAIN tOut /\ tOut[k].id = tPrev[k].id
       /\ \/ tOut = tPrev
          \/ tOut = Append(tPrev, leaf)

\* the leaf became a second, newer sibling of a message on the path, another
\* key of the map is set, and the path kept its two messages
C3_Witness ==
    /\ tOp = "appendLeaf"
    /\ Len(tPrev) = 2
    /\ tOut = tPrev
    /\ DOMAIN tSel # {}
    /\ LET leaf == tMessages[Len(tMessages)] IN
       /\ ~leaf.isThreadMessage
       /\ \E k \in DOMAIN tPrev : tPrev[k].parentMessageId = leaf.parentMessageId

\* the leaf was appended under the last message of the path and extends it
C3_WitnessGrows ==
    /\ tOp = "appendLeaf"
    /\ Len(tPrev) >= 1
    /\ tOut = Append(tPrev, tMessages[Len(tMessages)])

C5_ThreadViewIsolation ==
    tOp = "getThreadMessages" =>
       /\ tReturned
       /\ tArg \notin Ids(tMessages) => tOut = <<>>
       /\ tArg \in Ids(tMessages) =>
            LET root == CHOOSE x \in Range(tMessages) : x.id = tArg IN
            /\ tOut # <<>>
            /\ tOut[1] = root
            /\ \A k \in 2..Len(tOut) :
                  /\ tOut[k].isThreadMessage
                  /\ tOut[k].parentMessageId = tOut[k - 1].id
                  /\ tOut[k] \in Range(tMessages)
            /\ \A x \in Range(tMessages) :
                  (~x.isThreadMessage /\ x.parentMessageId = tArg)
                     => \A k \in DOMAIN tOut : tOut[k].id # x.id
            /\ \A x \in Range(tMessages) :
                  (x.id # tArg /\ x.parentMessageId = root.parentMessageId)
                     => \A k \in DOMAIN tOut : tOut[k].id # x.id

\* the root has an older non-thread child and a thread reply; the reply is shown
C5_Witness ==
    /\ tOp = "getThreadMessages"
    /\ Len(tOut) = 2
    /\ \E x \in Range(tMessages) :
          /\ ~x.isThreadMessage
          /\ x.parentMessageId = tArg
          /\ x.createdAt < tOut[2].createdAt

\* the root id is not in the list
C5_WitnessMissingRoot ==
    /\ tOp = "getThreadMessages"
    /\ tArg \notin Ids(tMessages)
    /\ tMessages # <<>>

\* C9: for a valid forest and a target in it, buildConversationPath returns
\* exactly the ancestor chain of the target, oldest first: the first element
\* has a null parent, each later element's parent is the element before it,
\* the last element is the target, and nothing outside the chain is included.
C9_ConversationPathIsAncestorChain ==
    (tOp = "buildConversationPath" /\ ValidForest(tMessages)
        /\ tArg \in Ids(tMessages)) =>
       /\ tReturned
       /\ tOut # <<>>
       /\ tOut[1].parentMessageId = NULL
       /\ \A k \in 2..Len(tOut) : tOut[k].parentMessageId = tOut[k - 1].id
       /\ tOut[Len(tOut)].id = tArg
       /\ \A k \in DOMAIN tOut : tOut[k] \in Range(tMessages)
       /\ Ids(tOut) = AncestorsOrSelf(tMessages, tArg)
       /\ NoRepeatedIds(tOut)

\* the chain U1 -> A1 -> U2 with target U2 yields the three messages in order
C9_Witness ==
    /\ tOp = "buildConversationPath"
    /\ Len(tMessages) = 3
    /\ tMessages[2].parentMessageId = 1
    /\ tMessages[3].parentMessageId = 2
    /\ tArg = 3
    /\ tOut = tMessages


(***************************************************************************)
(* Claims on the store, the chat endpoint and the handlers (under Spec)    *)
(***************************************************************************)

RowOf(messages, id) == CHOOSE m \in Range(messages) : m.id = id

\* rows of the store that were not in the list a handler closed over
AddedSince(r) == {x \in Range(store) : x.id \notin Ids(r.messages)}

\* nothing but the request itself wrote to the conversation since its handler
\* was called: the rows it closed over are all still there, and the rows
\* added since are the ones the request created
Undisturbed(r) ==
    /\ Range(r.messages) \subseteq Range(store)
    /\ Ids(r.messages) \cup {r.savedUserId, r.assistantId} = Ids(store)

\* number of non-thread siblings of a main-tree row created before it
SiblingRank(messages, id) ==
    LET x == RowOf(messages, id)
        g == MainGroup(messages, normalizeParentId(x.parentMessageId))
    IN Cardinality({j \in g : messages[j].createdAt < x.createdAt})

\* a follows u immediately somewhere on the path
Adjacent(path, uId, aId) ==
    \E i \in 1..(Len(path) - 1) : path[i].id = uId /\ path[i + 1].id = aId

\* the request in slot s ends with this step, its stream having ended well
FinishesWell(s, kind) ==
    /\ reqs[s].kind = kind
    /\ reqs[s].pc = "complete"
    /\ ~reqs[s].streamError
    /\ reqs'[s].pc = "free"
    /\ Undisturbed(reqs[s])

\* what an edit or a regenerate that resubmitted `content` in place of the
\* user message m has left behind when it ends
ResubmitOutcome(r, m, content) ==
    LET p == m.parentMessageId
        key == IF p = NULL THEN ROOT_PARENT_KEY ELSE p
        added == AddedSince(r)
        newUsers == {x \in added : x.role = "user"}
        newAssistants == {x \in added : x.role = "assistant"}
        pathAfter == getActivePath(cMessages', branchSelections')
    IN /\ Cardinality(added) = 2
       /\ Cardinality(newUsers) = 1
       /\ Cardinality(newAssistants) = 1
       /\ \A u \in newUsers, a \in newAssistants :
             /\ u.parentMessageId = p
             /\ u.content = content
             /\ ~u.isThreadMessage
             /\ a.parentMessageId = u.id
             /\ \A x \in added : x.parentMessageId # m.id
             /\ key \in DOMAIN branchSelections'
             /\ branchSelections'[key] = SiblingRank(store, u.id)
             /\ branchSelections'[key] = Cardinality(MainGroup(r.messages, key))
             /\ (p = NULL \/ p \in Ids(pathAfter)) =>
                   /\ Adjacent(pathAfter, u.id, a.id)
                   /\ m.id \notin Ids(pathAfter)

C7_WitnessNoop ==
    /\ \E k \in DOMAIN displayMessages :
          /\ displayMessages[k].role = "assistant"
          /\ ~RegenerateGuard(cMessages, displayMessages[k])
    /\ \E k \in DOMAIN displayMessages :
          /\ displayMessages[k].role = "assistant"
          /\ displayMessages[k].parentMessageId = NULL

\* C8: a step that removes rows from the store removes one message together
\* with every descendant of it, thread-flagged or not, and nothing else; the
\* rows that stay are unchanged; getThreadMessages for a removed root on the
\* messages read afterwards is empty; and a removed id never comes back,
\* since every row has an id below the sequence and a new row takes the next
\* value of the sequence.
C8_DeleteCascades ==
    [][LET removed == Ids(store) \ Ids(store')
           after == getMessages(store')
       IN /\ \A x \in Range(store) : x.id < nextId
          /\ nextId' >= nextId
          /\ \A x \in Range(store') :
                x \notin Range(store) => x.id \notin Ids(store) /\ x.id >= nextId
          /\ removed # {} =>
                /\ \E d \in removed :
                      removed = {x.id : x \in {y \in Range(store) :
                                                 d \in AncestorsOrSelf(store, y.id)}}
                /\ \A x \in Range(store) : x.id \notin removed => x \in Range(store')
                /\ Range(store') \subseteq Range(store)
                /\ Ids(after) \cap removed = {}
                /\ Range(after) = Range(store')
                /\ \A d \in removed :
                      /\ getThreadMessages(after, d, branchSelections') = <<>>
                      /\ getThreadMessages(after, d, EmptySel) = <<>>]_vars

C8_Witness ==
    /\ clock - 1 >= Len(store) + 2
    /\ store # <<>>
    /\ threadRootId # NULL
    /\ threadRootId \notin Ids(store)
    /\ cMessages = getMessages(store)
    /\ getThreadMessages(cMessages, threadRootId, branchSelections) = <<>>

\* the thread-flagged children of a message, oldest first
RECURSIVE FlaggedWalk(_, _, _)
FlaggedWalk(messages, id, fuel) ==
    LET kids == {i \in DOMAIN messages :
                    /\ messages[i].isThreadMessage
                    /\ messages[i].parentMessageId = id}
    IN IF kids = {} \/ fuel = 0 THEN <<>>
       ELSE LET first == CHOOSE i \in kids :
                            \A j \in kids :
                               \/ messages[i].createdAt < messages[j].createdAt
                               \/ /\ messages[i].createdAt = messages[j].createdAt
                                  /\ i <= j
            IN <<messages[first]>> \o FlaggedWalk(messages, messages[first].id, fuel - 1)

Turn(m) == [role |-> m.role, content |-> m.content]

\* the sequence of turns the specification describes for thread mode
ThreadSequence(messages, rootId, userMessage) ==
    LET walk == FlaggedWalk(messages, rootId, Len(messages))
    IN <<Turn(RowOf(messages, rootId))>>
       \o [k \in 1..Len(walk) |-> Turn(walk[k])]
       \o <<[role |-> "user", content |-> userMessage]>>

\* C10: in thread mode, with the thread root in the store, the sequence
\* submitted to the model is the root's content, then the walk from the root
\* over the oldest thread-flagged child at each step, then the new user turn.
C10_ThreadHistoryIsFlaggedWalk ==
    [][\A s \in Slots :
          (/\ reqs[s].pc = "saved"
           /\ reqs'[s].pc = "streaming"
           /\ reqs[s].threadContext
           /\ reqs[s].threadRootId \in Ids(store)) =>
             reqs'[s].claudeMessages =
                ThreadSequence(getMessages(store), reqs[s].threadRootId, reqs[s].message)]_vars

\* a thread request whose history has been built from a store in which the
\* thread root has a child outside the thread
C10_Witness ==
    \E s \in Slots :
       /\ reqs[s].pc = "streaming"
       /\ reqs[s].threadContext
       /\ \E x \in Range(store) :
             /\ x.parentMessageId = reqs[s].threadRootId
             /\ ~x.isThreadMessage

\* C11: in a thread-mode chat request, every row the submitted history is
\* built from is thread-flagged or is the thread root: no other non-thread
\* message is included, whatever main-tree children the root has.
C11_ThreadHistoryIsolated ==
    [][\A s \in Slots :
          (/\ reqs[s].pc = "saved"
           /\ reqs'[s].pc = "streaming"
           /\ reqs[s].threadContext
           /\ reqs[s].threadRootId # NULL) =>
             \A k \in DOMAIN reqs'[s].historyIds :
                LET id == reqs'[s].historyIds[k] IN
                \/ id = reqs[s].threadRootId
                \/ \E x \in Range(store) : x.id = id /\ x.isThreadMessage]_vars

\* the history of a thread request names a row that is neither the thread
\* root nor thread-flagged
C11_Witness ==
    \E s \in Slots :
       /\ reqs[s].pc = "streaming"
       /\ reqs[s].threadContext
       /\ Len(reqs[s].historyIds) >= 3
       /\ \E k \in DOMAIN reqs[s].historyIds, x \in Range(store) :
             /\ x.id = reqs[s].historyIds[k]
             /\ x.id # reqs[s].threadRootId
             /\ ~x.isThreadMessage
             /\ x.id < reqs[s].savedUserId

\* positions of the thread-flagged messages attached to a message
ThreadGroup(messages, id) ==
    {i \in DOMAIN messages :
        messages[i].isThreadMessage /\ messages[i].parentMessageId = id}

\* the member of a group of positions with r members created before it
\* (members of equal creation time keep their list order)
GroupAt(messages, g, r) ==
    LET before(i) == {j \in g : \/ messages[j].createdAt < messages[i].createdAt
                                \/ /\ messages[j].createdAt = messages[i].createdAt
                                   /\ j < i}
    IN messages[CHOOSE i \in g : Cardinality(before(i)) = r]

\* the child a walk must take from a group for a stored selection value v
ChildForStored(messages, g, v) ==
    IF v < 0 THEN GroupAt(messages, g, 0)
    ELSE IF v >= Cardinality(g) THEN GroupAt(messages, g, Cardinality(g) - 1)
    ELSE GroupAt(messages, g, v)

\* C20: whatever value is stored for a parent key (negative, or at or beyond
\* the number of children), getActivePath and getThreadMessages return
\* without failing and take, at every step, the child at the stored index
\* clamped into [0, childCount - 1]: the oldest child for a negative value,
\* the newest for a value at or beyond the count.
C20_StoredSelectionIsClamped ==
    /\ (tOp = "getActivePath" /\ ValidForest(tMessages)) =>
          /\ tReturned
          /\ \A k \in DOMAIN tOut :
                LET key == IF k = 1 THEN ROOT_PARENT_KEY ELSE tOut[k - 1].id
                    g == MainGroup(tMessages, key)
                IN /\ g # {}
                   /\ tOut[k] = ChildForStored(tMessages, g, SelectedIndex(tSel, key))
    /\ (tOp = "getThreadMessages" /\ ValidForest(tMessages)) =>
          /\ tReturned
          /\ \A k \in 2..Len(tOut) :
                LET g == ThreadGroup(tMessages, tOut[k - 1].id)
                IN /\ g # {}
                   /\ tOut[k] = ChildForStored(tMessages, g,
                                               SelectedIndex(tSel, tOut[k - 1].id))

\* a thread walk that consulted a negative stored value at a message with two
\* thread replies
C20_Witness ==
    /\ tOp = "getThreadMessages"
    /\ ValidForest(tMessages)
    /\ \E k \in DOMAIN tSel :
          /\ k \in Ids(tOut)
          /\ tSel[k] < 0
          /\ Cardinality(ThreadGroup(tMessages, k)) = 2

\* a thread walk that consulted a stored value beyond the number of replies
C20_WitnessBeyond ==
    /\ tOp = "getThreadMessages"
    /\ ValidForest(tMessages)
    /\ \E k \in DOMAIN tSel :
          /\ k \in Ids(tOut)
          /\ tSel[k] >= 2
          /\ Cardinality(ThreadGroup(tMessages, k)) = 2

\* an active-path walk that consulted a negative stored value at a group of two
C20_WitnessActivePath ==
    /\ tOp = "getActivePath"
    /\ ValidForest(tMessages)
    /\ \E k \in DOMAIN tSel :
          /\ k = ROOT_PARENT_KEY \/ k \in Ids(tOut)
          /\ tSel[k] < 0
          /\ Cardinality(MainGroup(tMessages, k)) = 2

\* positions of the attachments whose MIME type is in one of the three
\* buckets (image, PDF, text)
BucketPositions(files) ==
    {i \in DOMAIN files :
        \/ files[i].mimeType \in {"image/png", "image/jpeg", "image/gif", "image/webp"}
        \/ files[i].mimeType = "application/pdf"
        \/ isTextFile(files[i].mimeType)}

\* the j-th of a set of positions, in ascending order
NthPosition(positions, j) ==
    CHOOSE i \in positions : Cardinality({h \in positions : h < i}) = j - 1

\* the block an attachment of a bucket is given
BlockFor(file, block) ==
    IF file.mimeType \in {"image/png", "image/jpeg", "image/gif", "image/webp"}
    THEN block = [type |-> "image", media_type |-> file.mimeType, data |-> file.data]
    ELSE IF file.mimeType = "application/pdf"
    THEN block = [type |-> "document", media_type |-> "application/pdf",
                  data |-> file.data]
    ELSE /\ block.type = "text"
         /\ StartsWith(block.text, "[File: " \o file.originalName \o "]")
         /\ block.text = "[File: " \o file.originalName \o "]\n" \o Fence \o "\n"
                            \o DecodeBase64Utf8(file.data) \o "\n" \o Fence

\* C12: buildUserContent returns the plain text when there are no
\* attachments; otherwise a list holding, in attachment order, exactly one
\* block per attachment of the three buckets (image, document, text block
\* labelled with the original filename), no block for any other MIME type,
\* and then exactly one final text block equal to the user's text. It returns
\* for every MIME type.
C12_UserContentBlocks ==
    uOp = "buildUserContent" =>
       /\ uFiles = <<>> =>
             uContent = [kind |-> "string", text |-> uText, blocks |-> <<>>]
       /\ uFiles # <<>> =>
             LET kept == BucketPositions(uFiles)
                 blocks == uContent.blocks
             IN /\ uContent.kind = "blocks"
                /\ Len(blocks) = Cardinality(kept) + 1
                /\ \A j \in 1..Cardinality(kept) :
                      BlockFor(uFiles[NthPosition(kept, j)], blocks[j])
                /\ blocks[Len(blocks)] = [type |-> "text", text |-> uText]

\* two attachments, the first of a dropped type and the second a text file
\* admitted by its text/ prefix only
C12_Witness ==
    /\ uOp = "buildUserContent"
    /\ Len(uFiles) = 2
    /\ uFiles[1].mimeType = "application/zip"
    /\ uFiles[2].mimeType = "text/x-log"
    /\ Len(uContent.blocks) = 2

\* no attachment: the plain text
C12_WitnessPlain ==
    /\ uOp = "buildUserContent"
    /\ uFiles = <<>>
    /\ uContent.kind = "string"

\* C13: for a user message sent with attachments, the block list rebuilt
\* from its stored MessageFile rows when it is a historical ancestor equals
\* the block list built from the live request files when it was the target
\* (same blocks, same order, dropped types dropped in both), and ends with
\* one text block equal to the stored message content.
C13_RebuiltEqualsLive ==
    (uOp = "rebuild" /\ uFiles # <<>>) =>
       /\ uRebuilt.kind = "blocks"
       /\ uContent.kind = "blocks"
       /\ uRebuilt.blocks = uContent.blocks
       /\ uRebuilt.blocks[Len(uRebuilt.blocks)] = [type |-> "text", text |-> uText]

\* a text attachment whose stored text re-encodes to other base64 than was
\* sent, next to an image, with rows of another message in the table
C13_Witness ==
    /\ uOp = "rebuild"
    /\ Len(uFiles) = 2
    /\ uFiles[1].mimeType = "image/png"
    /\ uFiles[2].mimeType = "application/json"
    /\ uFiles[2].data # EncodeUtf8Base64(DecodeBase64Utf8(uFiles[2].data))
    /\ Len(uStored) = 3
    /\ Len(uRebuilt.blocks) = 3

\* only attachments of dropped types: both lists hold the text block alone
C13_WitnessDropped ==
    /\ uOp = "rebuild"
    /\ uFiles # <<>>
    /\ \A i \in DOMAIN uFiles : uFiles[i].mimeType = "application/zip"
    /\ Len(uRebuilt.blocks) = 1

\* ---- claims on the chat endpoint ----------------------------------------

\* the text of the content events of a response, in the order written
RECURSIVE RelayedText(_)
RelayedText(events) ==
    IF events = <<>> THEN ""
    ELSE (IF Head(events).event = "content" THEN Head(events).data ELSE "")
            \o RelayedText(Tail(events))

\* a step of request s that ends its model stream without a stream error
StreamCompletes(s) ==
    /\ reqs[s].pc = "streaming"
    /\ reqs'[s].pc # "streaming"
    /\ ~reqs'[s].streamError

\* the step appends exactly one row, the assistant row of request s
AddsAssistantRow(s) ==
    /\ Len(store') = Len(store) + 1
    /\ SubSeq(store', 1, Len(store)) = store
    /\ LET row == store'[Len(store')] IN
       /\ row.role = "assistant"
       /\ row.parentMessageId = reqs[s].savedUserId
       /\ row.isThreadMessage = reqs[s].threadContext
       /\ row.content = RelayedText(reqs[s].written)
       /\ row.id \notin Ids(store)

\* between the commit of its user message and the end of its stream a
\* request writes no row
NoRowWhileStreaming ==
    \A s \in Slots :
       (/\ reqs[s].pc \in {"saved", "streaming"}
        /\ reqs'[s] # reqs[s]
        /\ reqs'[s].pc \in {"saved", "streaming"}) => store' = store

C14_WitnessUserRowGone ==
    \E s \in Slots :
       /\ reqs[s].pc = "broken"
       /\ reqs[s].savedUserId \notin Ids(store)
       /\ reqs[s].assistantId = NULL

\* C15: when the model stream of a request errors, after any number of
\* relayed fragments, the error event is forwarded (followed by the
\* marker), the request never persists an assistant row (the only assistant
\* rows under its user row are rows posted directly), and the request has
\* written nothing to the store since its user message was committed.
C15_StreamErrorPersistsNothing ==
    /\ [][/\ NoRowWhileStreaming
          /\ \A s \in Slots :
                (reqs[s].pc = "streaming" /\ reqs'[s].streamError) =>
                   /\ store' = store
                   /\ reqs'[s].written =
                         reqs[s].written \o <<ErrorEvent, DoneEvent>>
                   /\ reqs'[s].ended
                   /\ reqs'[s].assistantId = NULL
          /\ \A s \in Slots :
                (reqs[s].streamError /\ reqs'[s] # reqs[s]) =>
                   /\ store' = store
                   /\ reqs'[s].pc = "free"]_vars
    /\ [](\A s \in Slots :
             reqs[s].streamError =>
                /\ reqs[s].assistantId = NULL
                /\ \A x \in Range(store) :
                      (x.parentMessageId = reqs[s].savedUserId
                          /\ x.role = "assistant") => x.content = "p")

\* the stream of a request errored after a relayed fragment; its user row is
\* the newest row of the store
C15_Witness ==
    \E s \in Slots :
       /\ reqs[s].streamError
       /\ reqs[s].written = <<TextEvent("a"), ErrorEvent, DoneEvent>>
       /\ store # <<>>
       /\ store[Len(store)].id = reqs[s].savedUserId

\* the stream errored before any fragment
C15_WitnessNoFragment ==
    \E s \in Slots :
       /\ reqs[s].streamError
       /\ reqs[s].written = <<ErrorEvent, DoneEvent>>

\* a body with a missing or empty message, a model outside the enum, or no
\* conversationId
Malformed(r) ==
    \/ r.message = ""
    \/ r.model \notin {"claude-opus-4-20250514", "claude-sonnet-4-5",
                       "claude-haiku-4-5"}
    \/ r.conversationId = NULL

\* C16: a chat request with a malformed body is answered with a 400 error
\* and creates no message row and no attachment row and makes no model call.
C16_MalformedBodyRejected ==
    /\ [][\A s \in Slots :
             (reqs[s].pc = "sent" /\ Malformed(reqs[s]) /\ reqs'[s] # reqs[s]) =>
                /\ reqs'[s].pc = "invalid"
                /\ reqs'[s].status = 400
                /\ reqs'[s].ended
                /\ store' = store
                /\ nextId' = nextId]_vars
    /\ [](\A s \in Slots :
             (reqs[s].pc # "free" /\ Malformed(reqs[s])) =>
                /\ reqs[s].pc \in {"sent", "invalid"}
                /\ reqs[s].savedUserId = NULL
                /\ reqs[s].savedFiles = <<>>
                /\ reqs[s].claudeMessages = <<>>
                /\ reqs[s].written = <<>>)

\* a request naming a model outside the enum, with an attachment, was
\* answered 400
C16_Witness ==
    \E s \in Slots :
       /\ reqs[s].pc = "invalid"
       /\ reqs[s].model = "gpt-4"
       /\ reqs[s].files # <<>>
       /\ reqs[s].status = 400

\* a request without conversationId was answered 400
C16_WitnessNoConversation ==
    \E s \in Slots :
       /\ reqs[s].pc = "invalid"
       /\ reqs[s].conversationId = NULL

\* a request with a well-formed body stored its attachment
C16_WitnessValidStores ==
    \E s \in Slots :
       /\ reqs[s].pc = "streaming"
       /\ reqs[s].savedFiles # <<>>

\* zero or more content events, an error event at most directly before the
\* marker, and the marker exactly once, last
EndsWithOneDone(events) ==
    /\ events # <<>>
    /\ events[Len(events)] = DoneEvent
    /\ \A k \in 1..(Len(events) - 1) :
          \/ events[k].event = "content"
          \/ events[k] = ErrorEvent /\ k = Len(events) - 1

\* C17: the response of every chat request that passed validation and whose
\* handler is through is a sequence of content events followed by exactly
\* one terminal [DONE] marker, and the response is ended: on success, on a
\* stream error (error event, then the marker), and when a store call
\* fails after the headers were sent.
C17_StreamEndsWithDone ==
    \A s \in Slots :
       reqs[s].pc \in {"complete", "broken"} =>
          /\ EndsWithOneDone(reqs[s].written)
          /\ reqs[s].ended

\* the insert of the assistant row failed after a fragment was relayed: no
\* marker was written and the response is not ended
C17_Witness ==
    \E s \in Slots :
       /\ reqs[s].pc = "broken"
       /\ reqs[s].status = 200
       /\ reqs[s].written = <<TextEvent("a")>>
       /\ ~reqs[s].ended

\* ---- claims on the store -------------------------------------------------

\* ids reached from a row by following parentMessageId upwards, within n steps
RECURSIVE ProperAncestors(_, _, _)
ProperAncestors(rows, id, n) ==
    IF n = 0 \/ id \notin Ids(rows) THEN {}
    ELSE LET parent == (CHOOSE x \in Range(rows) : x.id = id).parentMessageId
         IN IF parent = NULL THEN {}
            ELSE {parent} \cup ProperAncestors(rows, parent, n - 1)

\* every parent reference names a row of the store created strictly before
\* the referencing row, and no row is its own ancestor
ParentsExistEarlier ==
    \A m \in Range(store) :
       /\ m.parentMessageId # NULL =>
             \E q \in Range(store) :
                /\ q.id = m.parentMessageId
                /\ q.createdAt < m.createdAt
       /\ m.id \notin ProperAncestors(store, m.id, Len(store))

\* C18: in every reachable store, every non-null parentMessageId references
\* an existing message of the same conversation that was created strictly
\* before the referencing message, and there are no cycles.
C18_ForestInvariant ==
    /\ ParentsExistEarlier
    /\ \A m \in Range(store) :
          m.parentMessageId # NULL =>
             \E q \in Range(store) :
                /\ q.id = m.parentMessageId
                /\ q.conversationId = m.conversationId

\* a row whose parent is a row of another conversation
C18_Witness ==
    \E m, q \in Range(store) :
       /\ m.parentMessageId = q.id
       /\ m.conversationId # q.conversationId

\* a step of a send, edit, regenerate or thread reply: the handler starts a
\* request, the route advances it, or the handler finishes it
ChatStep ==
    \E s \in Slots :
       /\ reqs'[s].pc # reqs[s].pc \/ reqs'[s].fullContent # reqs[s].fullContent
       /\ {reqs[s].kind, reqs'[s].kind} \cap {"send", "edit", "regenerate", "thread"} # {}

\* C19: a send, edit, regenerate or thread reply never changes the id,
\* parent, role, content or thread flag of a row that exists and never
\* removes a row: every row of the store is still there, unchanged and in
\* place, after each of their steps; a step that removes a row is a step of
\* none of them and inserts nothing (it is a delete).
C19_AppendOnly ==
    [][/\ ChatStep =>
             /\ Len(store') >= Len(store)
             /\ SubSeq(store', 1, Len(store)) = store
             /\ \A k \in (Len(store) + 1)..Len(store') :
                   store'[k].id \notin Ids(store)
       /\ (\E x \in Range(store) : x \notin Range(store')) =>
             /\ ~ChatStep
             /\ Range(store') \subseteq Range(store)
             /\ nextId' = nextId]_vars

\* an edit was saved next to the message it replaces: both rows are in the
\* store, the older one as it was
C19_Witness ==
    \E s \in Slots :
       /\ reqs[s].kind = "edit"
       /\ reqs[s].pc = "saved"
       /\ \E x, y \in Range(store) :
             /\ x.id = reqs[s].target
             /\ y.id = reqs[s].savedUserId
             /\ x.content = "q"
             /\ y.content = "e"
             /\ x.parentMessageId = y.parentMessageId

\* a regenerate completed: the old and the new assistant row are both stored
C19_WitnessRegenerate ==
    \E s \in Slots :
       /\ reqs[s].kind = "regenerate"
       /\ reqs[s].pc = "complete"
       /\ reqs[s].assistantId # NULL
       /\ reqs[s].target \in Ids(store)

\* ---- claims of the third part: tree functions ---------------------------

\* a group is ascending by createdAt, and by id among equal createdAt
SortedByCreatedAtThenId(group) ==
    \A i, j \in DOMAIN group :
       i < j => \/ group[i].createdAt < group[j].createdAt
                \/ /\ group[i].createdAt = group[j].createdAt
                   /\ group[i].id < group[j].id

\* C21: buildMessageTree yields, for every order of the same list, the same
\* grouping by normalized parent key, each group ascending by createdAt with
\* messages of equal createdAt in ascending id order; building twice from
\* the same list gives identical results.
C21_TreeIndependentOfOrder ==
    tOp = "buildMessageTree" =>
       /\ tOut.again = tOut.first
       /\ DOMAIN tOut.permuted = DOMAIN tOut.first
       /\ \A k \in DOMAIN tOut.first :
             /\ tOut.permuted[k] = tOut.first[k]
             /\ SortedByCreatedAtThenId(tOut.first[k])
             /\ SortedByCreatedAtThenId(tOut.permuted[k])

\* what does hold: the keys and the members of each group do not depend on
\* the order, each group is ascending by createdAt, and a second build of
\* the same list gives the same tree
C21_TreeUpToTies ==
    tOp = "buildMessageTree" =>
       /\ tOut.again = tOut.first
       /\ DOMAIN tOut.permuted = DOMAIN tOut.first
       /\ \A k \in DOMAIN tOut.first :
             /\ Range(tOut.permuted[k]) = Range(tOut.first[k])
             /\ \A i, j \in DOMAIN tOut.permuted[k] :
                   i < j => tOut.permuted[k][i].createdAt
                               <= tOut.permuted[k][j].createdAt
             /\ (\A x, y \in Range(tMessages) :
                    x.createdAt = y.createdAt => x.id = y.id)
                   => tOut.permuted[k] = tOut.first[k]

\* two siblings of the same millisecond, handed over newest id first: the
\* group keeps that order
C21_Witness ==
    /\ tOp = "buildMessageTree"
    /\ \E k \in DOMAIN tOut.permuted :
          /\ Len(tOut.permuted[k]) >= 2
          /\ tOut.permuted[k][1].createdAt = tOut.permuted[k][2].createdAt
          /\ tOut.permuted[k][1].id > tOut.permuted[k][2].id
          /\ tOut.first[k][1].id < tOut.first[k][2].id

\* C22: with the default flag buildMessageTree places no thread-flagged
\* message in any sibling group; so, for every list and selection map, the
\* active path holds no thread-flagged message, and the siblings reported
\* for a message hold no thread reply.
C22_MainTreeHasNoThreadMessage ==
    /\ (tOp = "buildMessageTree" /\ ~tOut.includeThreadMessages) =>
          \A k \in DOMAIN tOut.first :
             \A i \in DOMAIN tOut.first[k] : ~tOut.first[k][i].isThreadMessage
    /\ tOp \in {"getActivePath", "appendLeaf"} =>
          \A i \in DOMAIN tOut : ~tOut[i].isThreadMessage
    /\ tOp = "getSiblings" =>
          \A i \in DOMAIN tOut : ~tOut[i].isThreadMessage

\* an active path whose last message has a thread reply and no other child
C22_Witness ==
    /\ tOp = "getActivePath"
    /\ tOut # <<>>
    /\ \E x \in Range(tMessages) :
          /\ x.isThreadMessage
          /\ x.parentMessageId = tOut[Len(tOut)].id

\* a default build of a list with a thread reply next to a main-tree sibling
C22_WitnessTree ==
    /\ tOp = "buildMessageTree"
    /\ ~tOut.includeThreadMessages
    /\ \E x, y \in Range(tMessages) :
          /\ x.isThreadMessage
          /\ ~y.isThreadMessage
          /\ x.parentMessageId = y.parentMessageId
          /\ normalizeParentId(y.parentMessageId) \in DOMAIN tOut.first

\* the siblings of a main-tree message that has a thread-flagged neighbour
C22_WitnessSiblings ==
    /\ tOp = "getSiblings"
    /\ tOut # <<>>
    /\ \E x \in Range(tMessages) :
          /\ x.isThreadMessage
          /\ x.parentMessageId = tOut[1].parentMessageId
          /\ \E y \in Range(tMessages) : y.id = tArg /\ ~y.isThreadMessage

\* C24: buildConversationPath always returns. If the target is not in the
\* list the walk stops at once (the empty path); if it is, the path is not
\* empty, ends at the target, is linked parent to child throughout, and
\* starts at a root or at the row whose parent is absent from the list.
C24_ConversationPathStopsAtMissingRow ==
    tOp = "buildConversationPath" =>
       /\ tReturned
       /\ tArg \notin Ids(tMessages) => tOut = <<>>
       /\ tArg \in Ids(tMessages) =>
             /\ Len(tOut) >= 1
             /\ tOut[Len(tOut)].id = tArg
             /\ \A k \in DOMAIN tOut : tOut[k] \in Range(tMessages)
             /\ \A k \in 2..Len(tOut) : tOut[k].parentMessageId = tOut[k - 1].id
             /\ \/ tOut[1].parentMessageId = NULL
                \/ tOut[1].parentMessageId \notin Ids(tMessages)

\* the grandparent of the target is not in the list: the path is the parent
\* and the target
C24_Witness ==
    /\ tOp = "buildConversationPath"
    /\ Len(tOut) = 2
    /\ tOut[2].id = tArg
    /\ tOut[1].parentMessageId # NULL
    /\ tOut[1].parentMessageId \notin Ids(tMessages)

\* the parent of the target is not in the list: the one-message path
C24_WitnessSingle ==
    /\ tOp = "buildConversationPath"
    /\ Len(tOut) = 1
    /\ tOut[1].id = tArg
    /\ tOut[1].parentMessageId # NULL

\* the target is not in a non-empty list
C24_WitnessNoTarget ==
    /\ tOp = "buildConversationPath"
    /\ tMessages # <<>>
    /\ tArg \notin Ids(tMessages)
    /\ tOut = <<>>

\* ---- claims on the history of a chat request ----------------------------

\* the stored attachment rows of a message
StoredFilesOf(id) == SelectSeq(uStored, LAMBDA f : f.messageId = id)

\* a turn of the history is a block list with one block per stored
\* attachment of the three buckets and a final text block
RebuiltFromFiles(turn) ==
    LET msgFiles == StoredFilesOf(turn.id)
        bucketed == SelectSeq(msgFiles, LAMBDA f :
                       \/ isImageFile(f.mimeType)
                       \/ isPdfFile(f.mimeType)
                       \/ isTextFile(f.mimeType))
    IN /\ turn.content.kind = "blocks"
       /\ Len(turn.content.blocks) = Len(bucketed) + 1

\* the turns before the new one that are user messages with stored
\* attachments and are not the request's own row
HistoricalWithFiles ==
    {k \in 1..(Len(tOut) - 1) :
        /\ tOut[k].role = "user"
        /\ tOut[k].id # tIndex
        /\ StoredFilesOf(tOut[k].id) # <<>>}

\* C23: on every chat request, in main chat mode and in thread mode, each
\* historical user message of the submitted history that has stored
\* MessageFile rows is submitted as content blocks rebuilt from them, not
\* as bare text.
C23_PastAttachmentsRebuilt ==
    tOp \in {"main", "thread"} =>
       \A k \in HistoricalWithFiles : RebuiltFromFiles(tOut[k])

\* what does hold: the same in main chat mode alone
C23_PastAttachmentsRebuiltInMainMode ==
    tOp = "main" =>
       \A k \in HistoricalWithFiles : RebuiltFromFiles(tOut[k])

\* a thread request whose history holds an earlier thread reply of the user
\* that has a stored attachment, as bare text
C23_Witness ==
    /\ tOp = "thread"
    /\ \E k \in HistoricalWithFiles :
          /\ tOut[k].content.kind = "string"
          /\ \E x \in Range(tMessages) :
                /\ x.id = tOut[k].id
                /\ x.isThreadMessage
                /\ x.parentMessageId = tArg

\* a main-mode request whose history holds an earlier user message rebuilt
\* from its stored attachment
C23_WitnessMainMode ==
    /\ tOp = "main"
    /\ \E k \in HistoricalWithFiles : tOut[k].content.kind = "blocks"

\* ---- claims on the history and the view of the Chat page ----------------

\* how often an id occurs in a list of ids
Occurrences(ids, id) == Cardinality({k \in DOMAIN ids : ids[k] = id})

\* the step of a request from the saved user row to the submitted history
BuildsHistory(s) ==
    /\ reqs[s].pc = "saved"
    /\ reqs'[s].pc = "streaming"

ThreadMode(r) == r.threadContext /\ r.threadRootId # NULL

\* C25: in every thread-mode chat request the new user turn appears exactly
\* once in the history submitted to the model, as its last element; the
\* request's user row, persisted before the store is read back, is not also
\* included through the thread-chain walk.
C25_NewTurnOnce ==
    [][\A s \in Slots :
          (BuildsHistory(s) /\ ThreadMode(reqs[s])) =>
             LET h == reqs'[s].historyIds IN
             /\ h # <<>>
             /\ h[Len(h)] = reqs[s].savedUserId
             /\ Occurrences(h, reqs[s].savedUserId) = 1]_vars

\* what does hold: the new turn is the last element of the history, and it
\* occurs once more exactly when the request's row lies on the chain of
\* oldest children below the root
C25_NewTurnLastAndChain ==
    [][\A s \in Slots :
          (BuildsHistory(s) /\ ThreadMode(reqs[s])) =>
             LET h == reqs'[s].historyIds
                 chain == getThreadChain(getMessagesOf(store, reqs[s].conversationId),
                                         reqs[s].threadRootId)
             IN /\ h # <<>>
                /\ h[Len(h)] = reqs[s].savedUserId
                /\ Occurrences(h, reqs[s].savedUserId)
                     = IF reqs[s].savedUserId \in Ids(chain) THEN 2 ELSE 1]_vars

\* a thread request sent from the thread panel whose submitted history ends
\* with its own user row twice
C25_Witness ==
    \E s \in Slots :
       /\ reqs[s].pc = "streaming"
       /\ reqs[s].kind = "thread"
       /\ ThreadMode(reqs[s])
       /\ LET h == reqs[s].historyIds IN
          /\ Len(h) >= 2
          /\ h[Len(h)] = reqs[s].savedUserId
          /\ h[Len(h) - 1] = reqs[s].savedUserId

\* an edit or a regenerate whose send was answered with an HTTP error before
\* a user row was created
FailedResend(r) ==
    /\ r.pc = "rejected"
    /\ r.kind \in {"edit", "regenerate"}
    /\ r.savedUserId = NULL

\* the handler of a failed send returns
FailureHandled(s) ==
    /\ FailedResend(reqs[s])
    /\ reqs'[s].pc = "free"

\* C26: if the send performed by an edit or a regenerate fails before a new
\* user row is created, the branch-selection map is left unchanged, and so
\* the active path shown after the failure is the one shown before it.
C26_FailedResendKeepsSelection ==
    [][\A s \in Slots :
          FailureHandled(s) =>
             /\ branchSelections' = branchSelections
             /\ getActivePath(cMessages', branchSelections') = activePath]_vars

\* the part on the active path alone
C26_FailedResendKeepsActivePath ==
    [][\A s \in Slots :
          FailureHandled(s) =>
             getActivePath(cMessages', branchSelections') = activePath]_vars

\* a failed edit or regenerate about to set a branch selection under which
\* the view shows another active path than before
C26_Witness ==
    \E s \in Slots :
       /\ FailedResend(reqs[s])
       /\ AfterSend(reqs[s]) # branchSelections
       /\ getActivePath(cMessages, AfterSend(reqs[s])) # activePath

\* the message shown at position k after the navigator of the message at
\* position k was activated
ShownAfterNavigate(k, direction) ==
    LET sel == handleBranchNavigate(branchSelections, cMessages,
                   displayMessages[k].parentMessageId, direction)
        path == getActivePath(cMessages, sel)
    IN IF k \in DOMAIN path THEN path[k].id ELSE NULL

\* an enabled navigator shows the neighbour of the displayed sibling
MovesByOne(k, direction) ==
    LET entry == SiblingsMapEntry(cMessages, displayMessages[k])
        target == IF direction = "prev" THEN entry.index - 1 ELSE entry.index + 1
    IN NavigatorEnabled(entry, direction) =>
          /\ target \in 0..(Len(entry.siblings) - 1)
          /\ ShownAfterNavigate(k, direction) = entry.siblings[target + 1].id

\* the sibling index shown for every displayed message is an index of its
\* sibling group
ShownIndexInRange ==
    \A k \in DOMAIN displayMessages :
       LET entry == SiblingsMapEntry(cMessages, displayMessages[k]) IN
       entry.siblings # <<>> => entry.index \in 0..(Len(entry.siblings) - 1)

\* the stored selection of the group of a displayed message is the index
\* shown for it
StoredIsShown(k) ==
    LET entry == SiblingsMapEntry(cMessages, displayMessages[k]) IN
    SelectedIndex(branchSelections,
                  normalizeParentId(displayMessages[k].parentMessageId)) = entry.index

\* C27: in every reachable client state, also when a stored index lies
\* beyond the sibling count, activating an enabled prev control makes the
\* active path show the sibling at index - 1 and an enabled next control the
\* sibling at index + 1; the index shown stays within [0, siblingCount - 1].
C27_NavigateMovesByOne ==
    /\ \A k \in DOMAIN displayMessages, direction \in {"prev", "next"} :
          MovesByOne(k, direction)
    /\ ShownIndexInRange

\* what does hold: the same for the groups whose stored selection is the
\* index shown
C27_NavigateFromStoredIndex ==
    /\ \A k \in DOMAIN displayMessages, direction \in {"prev", "next"} :
          StoredIsShown(k) => MovesByOne(k, direction)
    /\ ShownIndexInRange

\* a displayed message with an enabled prev control whose group has a stored
\* selection beyond its last index, and prev leaves the same message shown
C27_Witness ==
    \E k \in DOMAIN displayMessages :
       LET entry == SiblingsMapEntry(cMessages, displayMessages[k]) IN
       /\ NavigatorEnabled(entry, "prev")
       /\ SelectedIndex(branchSelections,
              normalizeParentId(displayMessages[k].parentMessageId))
            > Len(entry.siblings) - 1
       /\ ShownAfterNavigate(k, "prev") = displayMessages[k].id

\* a send from the main view with no explicit parent
MainSend(r) == r.kind = "send"

\* the last id of a list of ids, null for the empty list
LastId(ids) == IF ids = <<>> THEN NULL ELSE ids[Len(ids)]

\* the user row of a request is created under the last message of the
\* active path the send was made from
ParentIsLastOfActivePath(s) ==
    (reqs[s].pc = "sent" /\ reqs'[s].pc = "saved") =>
       \E row \in Range(store') :
          /\ row.id = reqs'[s].savedUserId
          /\ row.parentMessageId = LastId(reqs[s].activePath)

\* C28: when the user sends a message from the main view with no explicit
\* parent, the new row's parent is the last message of the active path of
\* the view, and the history the server submits to the model is exactly
\* the messages of that active path, in order, followed by the new turn.
C28_HistoryIsActivePath ==
    [][\A s \in Slots :
          MainSend(reqs[s]) =>
             /\ ParentIsLastOfActivePath(s)
             /\ BuildsHistory(s) =>
                   reqs'[s].historyIds
                      = reqs[s].activePath \o <<reqs[s].savedUserId>>]_vars

\* the same while the request's user row is in the store when the history
\* is read back
C28_HistoryIsActivePathIfRowKept ==
    [][\A s \in Slots :
          MainSend(reqs[s]) =>
             /\ ParentIsLastOfActivePath(s)
             /\ (BuildsHistory(s) /\ reqs[s].savedUserId \in Ids(store)) =>
                   reqs'[s].historyIds
                      = reqs[s].activePath \o <<reqs[s].savedUserId>>]_vars

\* a main-view send below a non-empty active path whose history was built
C28_Witness ==
    \E s \in Slots :
       /\ MainSend(reqs[s])
       /\ reqs[s].pc = "streaming"
       /\ Len(reqs[s].activePath) >= 2
       /\ reqs[s].historyIds = reqs[s].activePath \o <<reqs[s].savedUserId>>

\* ---- claims on racing chat requests (checked under SpecPair) ------------

\* every row of the store stays where it is and as it is
RowsKept == 
    /\ Len(store') >= Len(store)
    /\ SubSeq(store', 1, Len(store)) = store

\* the step in which request s commits its user row
SavesUserRow(s) ==
    /\ reqs[s].pc = "sent"
    /\ reqs'[s].pc = "saved"

\* the step appends exactly one row, the user row of request s
AddsUserRow(s) ==
    /\ Len(store') = Len(store) + 1
    /\ LET row == store'[Len(store')] IN
       /\ row.id = reqs'[s].savedUserId
       /\ row.id \notin Ids(store)
       /\ row.role = "user"
       /\ row.content = reqs[s].message
       /\ row.parentMessageId = reqs[s].parentMessageId
       /\ row.conversationId = reqs[s].conversationId

\* the text of the answer to a prompt after n fragments
RECURSIVE ReplyText(_, _)
ReplyText(message, n) ==
    IF n = 0 THEN ""
    ELSE ReplyText(message, n - 1) \o ReplyFragment(message, n - 1)

\* the rows of a request that is past its commit are in the store
OwnRowsStored(s) ==
    LET r == reqs[s] IN
    /\ r.pc \in {"saved", "streaming", "complete"} =>
          \E row \in Range(store) :
             /\ row.id = r.savedUserId
             /\ row.role = "user"
             /\ row.content = r.message
             /\ row.parentMessageId = r.parentMessageId
    /\ (r.pc = "complete" /\ ~r.streamError) =>
          \E row \in Range(store) :
             /\ row.id = r.assistantId
             /\ row.role = "assistant"
             /\ row.parentMessageId = r.savedUserId
             /\ row.content = ReplyText(r.message, Len(r.fullContent))

\* two requests past their commit have two user rows, siblings when the
\* requests name the same parent
DistinctUserRows ==
    \A s, t \in Slots :
       (/\ s # t
        /\ reqs[s].pc \in {"saved", "streaming", "complete"}
        /\ reqs[t].pc \in {"saved", "streaming", "complete"}) =>
          /\ reqs[s].savedUserId # reqs[t].savedUserId
          /\ reqs[s].parentMessageId = reqs[t].parentMessageId =>
                \E a, b \in DOMAIN store :
                   /\ a # b
                   /\ store[a].id = reqs[s].savedUserId
                   /\ store[b].id = reqs[t].savedUserId
                   /\ store[a].parentMessageId = store[b].parentMessageId

\* C29: under any interleaving of two concurrent chat requests on the same
\* conversation, each request persists its own user row and, if its stream
\* succeeds, its own assistant row whose parent is that request's user row
\* and whose content is only that request's fragments; neither request
\* overwrites or drops a row of the other, and requests attaching to the
\* same parent yield sibling rows.
C29_RacingRequestsKeepTheirRows ==
    /\ [][/\ RowsKept
          /\ \A s \in Slots :
                /\ SavesUserRow(s) => AddsUserRow(s)
                /\ (StreamCompletes(s) /\ reqs'[s].pc = "complete") =>
                      /\ AddsAssistantRow(s)
                      /\ store'[Len(store')].content
                           = ReplyText(reqs[s].message, Len(reqs[s].fullContent))]_vars
    /\ [](DistinctUserRows /\ \A s \in Slots : OwnRowsStored(s))

\* two requests under the same parent, both completed without a stream
\* error after relaying a fragment each; their user rows are siblings
C29_Witness ==
    /\ reqs[1].pc = "complete" /\ reqs[2].pc = "complete"
    /\ ~reqs[1].streamError /\ ~reqs[2].streamError
    /\ reqs[1].fullContent # "" /\ reqs[2].fullContent # ""
    /\ reqs[1].parentMessageId = reqs[2].parentMessageId
    /\ reqs[1].savedUserId > reqs[2].savedUserId
    /\ reqs[1].assistantId < reqs[2].assistantId

\* two requests under different parents in flight at once
C29_WitnessOtherParent ==
    /\ reqs[1].pc = "streaming" /\ reqs[2].pc = "streaming"
    /\ reqs[2].parentMessageId = reqs[1].savedUserId

\* ---- claims on the streaming flag (checked under SpecViewFair) ----------

\* the requests of the main view that are in flight
MainRequests ==
    {s \in Slots : /\ reqs[s].pc # "free"
                   /\ reqs[s].kind \in {"send", "edit", "regenerate"}}

\* request s is started by the main view in this step
StartsMainRequest(s) ==
    /\ reqs[s].pc = "free"
    /\ reqs'[s].pc = "sent"
    /\ reqs'[s].kind \in {"send", "edit", "regenerate"}

\* C30: in one open conversation view at most one main-view chat request is
\* in flight at any time: while isStreaming is true no send, edit or
\* regenerate starts a second request, and isStreaming is eventually reset
\* to false after every send, whether it succeeds or fails.
C30_OneMainRequest ==
    /\ [](Cardinality(MainRequests) <= 1)
    /\ [][isStreaming => \A s \in Slots : ~StartsMainRequest(s)]_vars
    /\ (isStreaming ~> ~isStreaming)

\* what does hold: while isStreaming is true no send is started from the
\* input of the main view
C30_NoSendWhileStreaming ==
    [][isStreaming =>
          \A s \in Slots : ~(StartsMainRequest(s) /\ reqs'[s].kind = "send")]_vars

\* the part on the reset of the flag alone
C30_StreamingIsReset == isStreaming ~> ~isStreaming

\* an edit started while the send before it is still in flight
C30_Witness ==
    /\ isStreaming
    /\ Cardinality(MainRequests) = 2
    /\ \E s, t \in MainRequests :
          /\ reqs[s].kind = "send"
          /\ reqs[t].kind = "edit"

\* a send whose response is never ended while no other request is in
\* flight: the flag stays set
C30_WitnessNeverReset ==
    /\ isStreaming
    /\ Cardinality(MainRequests) = 1
    /\ \E s \in MainRequests : reqs[s].pc = "broken" /\ reqs[s].kind = "send"


=============================================================================
